---- MODULE Spec2Model ----
(***************************************************************************)
(* multicc: the profile registry (config store), the secret store, the     *)
(* environment composer and the launch/exec argument disambiguator,        *)
(* modelled from the TypeScript sources.                                   *)
(*                                                                         *)
(*   Spec        concurrent CLI invocations (create / use) sharing the     *)
(*               registry file, with crashes                               *)
(*   SpecSeq     the same invocations run one at a time, with crashes      *)
(*   SpecSecret  the secret store (keyring.ts) of one process at a time    *)
(*   SpecLaunch  launch / exec: argument disambiguation, buildProfileEnv   *)
(*               and the merge over the parent environment                 *)
(***************************************************************************)
EXTENDS Integers, Sequences, FiniteSets, TLC

\* ------------------------------------------------------------------ bounds
\* commands run in all, over every invocation slot
MaxCmds == 2
\* distinct values crypto.randomBytes(4) may draw in the model
NumSuffixes == 2
\* longest raw argument list given to launch / exec
MaxArgs == 2
\* latest instant Date.now() and an expiresAt may show
MaxTime == 2
\* entries of the profiles value of a parsed document given to validateConfig
MaxEntries == 2

\* ------------------------------------------------------------- vocabulary
Procs == {"p1", "p2"}
Suffixes == 1..NumSuffixes
\* names acceptable to NAME_PATTERN; "toString" is also a member of
\* Object.prototype, which every parsed JSON object inherits from
ProfileNames == {"work", "home", "toString"}
ObjectPrototypeKeys == {"toString"}
\* the profile names and API keys the secret store is exercised with
SecretNames == {"work", "home"}
Secrets == {"sk-ant-A", "sk-ant-B"}
AUTH_TYPES == {"oauth", "api-key", "bedrock", "vertex", "foundry"}
Undefined == "<undefined>"
Unset == "<unset>"
Null == "<null>"

CLAUDE_AUTH_ENV_VARS ==
  << "CLAUDE_CODE_USE_BEDROCK", "CLAUDE_CODE_USE_VERTEX", "CLAUDE_CODE_USE_FOUNDRY",
     "ANTHROPIC_API_KEY", "ANTHROPIC_BASE_URL", "ANTHROPIC_FOUNDRY_BASE_URL",
     "ANTHROPIC_FOUNDRY_RESOURCE" >>
AuthVarSet == { CLAUDE_AUTH_ENV_VARS[i] : i \in 1..Len(CLAUDE_AUTH_ENV_VARS) }
\* the envOverrides keys getCredentialStatus looks for
PROVIDER_ENV_VARS ==
  { "AWS_ACCESS_KEY_ID", "AWS_PROFILE", "GOOGLE_APPLICATION_CREDENTIALS",
    "CLOUD_ML_REGION", "FOUNDRY_API_KEY" }
EnvVars == AuthVarSet \cup PROVIDER_ENV_VARS \cup {"CLAUDE_CONFIG_DIR", "PATH"}
NoOverrides == [k \in EnvVars |-> Unset]

VARIABLES
  \* ---- file system shared by every invocation
  platform,       \* "posix" | "win32"
  multiccDir,     \* does getMulticcDir() exist
  profileDirs,    \* names n for which getProfileDir(n) exists
  registryFile,   \* config.json: [exists, data, mode]
  tempFiles,      \* config.tmp.<suffix>: suffix -> [exists, data, mode]
  \* ---- one CLI invocation per slot
  pc, cmd, config, tempPath, fd, outcome,
  clock,          \* commands begun so far; new Date() of a command is its number
  \* ---- history of the saves
  saved,          \* the content each slot's current saveConfig was given
  lastRename,     \* the slot whose renameSync ran last
  published,      \* the content given to the saveConfig whose renameSync ran last
  loadedBefore,   \* slots whose command loaded before this slot's load and had not finished
  \* ---- secret store
  keyringChecked, \* keyring.ts line 19, of the running process
  keyringModule,  \* keyring.ts line 18: "mod" or Null
  importCount,    \* import("@napi-rs/keyring") calls made by the running process
  vault,          \* the OS keyring: profile name -> secret or Null
  fallbackFiles,  \* <profile dir>/.api-key: profile name -> content or Null
  lastOp,         \* the secret store call that returned last
  lastMut,        \* per name, the running process's store or delete that returned last
  \* ---- launch / exec / shell / login
  launched,
  \* ---- credential resolver
  credFiles,      \* <profile dir>/.credentials.json: profile name -> file
  status,         \* the getCredentialStatus call that returned last
  \* ---- registry commands run as a whole, and calls of the pure functions
  lastCmd,        \* the registry command that ended last
  checked,        \* the validateConfig or save / load call that returned last
  \* ---- secret store calls of one process that overlap
  calls,          \* whether the keyring module can be imported; caller -> its call
  overlapped      \* a command began while another one was in flight

fsVars == << platform, multiccDir, profileDirs, registryFile, tempFiles >>
procVars == << pc, cmd, config, tempPath, fd, outcome, clock >>
histVars == << saved, lastRename, published, loadedBefore >>
secretVars == << keyringChecked, keyringModule, importCount, vault, fallbackFiles,
                 lastOp, lastMut >>
credVars == << credFiles, status >>
regVars == << lastCmd, checked, calls, overlapped >>
vars == << fsVars, procVars, histVars, secretVars, launched, credVars, regVars >>

\* ------------------------------------------------------------------ paths
\* getProfileDir(name) = <MULTICC_DIR>/profiles/<name>, as its path segments
getProfileDirShared(name) == << "MULTICC_DIR", "profiles", "shared" >>
getProfileDir(name) == << "MULTICC_DIR", "profiles", name >>
\* configDir.split(path.sep).pop()
FirstSegment(dir) == IF Len(dir) = 0 THEN "" ELSE dir[1]
LastSegment(dir) == IF Len(dir) = 0 THEN "" ELSE dir[Len(dir)]

\* --------------------------------------------------------------- registry
\* config.profiles is a JS object: its entries in insertion order
defaultConfig == [version |-> 1, activeProfile |-> "default", profiles |-> << >>]

Keys(profiles) == { profiles[i].name : i \in 1..Len(profiles) }
KeyIndex(profiles, name) == CHOOSE i \in 1..Len(profiles) : profiles[i].name = name

\* the truthiness of config.profiles[name]: an own key, or a member inherited
\* from Object.prototype
Truthy(profiles, name) == name \in Keys(profiles) \/ name \in ObjectPrototypeKeys

NewProfile(name, authType, dir, desc, at) ==
  [ name |-> name, authType |-> authType, configDir |-> dir, description |-> desc,
    createdAt |-> at, apiKeyStorage |-> Undefined, envOverrides |-> NoOverrides ]

\* a profile as create writes it, with the envOverrides config.json gives it
LaunchProfile(name, authType, ov, at) ==
  [NewProfile(name, authType, getProfileDir(name), Undefined, at) EXCEPT !.envOverrides = ov]

\* config.profiles[name] = profile: an existing key keeps its place
SetProfile(profiles, p) ==
  IF p.name \in Keys(profiles)
    THEN [profiles EXCEPT ![KeyIndex(profiles, p.name)] = p]
    ELSE Append(profiles, p)

\* a member of a JSON object as JSON.stringify writes it: a property whose
\* value is undefined is left out of the text
Member(k, v) == [k |-> k, written |-> v # Undefined, v |-> IF v = Undefined THEN "" ELSE v]
\* the property a parsed object has for a member: undefined when the text
\* has no such member
MemberValue(m) == IF m.written THEN m.v ELSE Undefined

\* envOverrides as the members of its JSON object
StringifyOverridesNone(ov) == {}
StringifyOverrides(ov) == { << k, ov[k] >> : k \in { x \in EnvVars : ov[x] # Unset } }
ParseOverrides(ms) ==
  [k \in EnvVars |-> IF \E m \in ms : m[1] = k
                       THEN (CHOOSE m \in ms : m[1] = k)[2] ELSE Unset]

\* one entry of "profiles": the key and the members of the profile object
StringifyProfile(p) ==
  [ name |-> p.name,
    authType |-> Member("authType", p.authType),
    configDir |-> [k |-> "configDir", written |-> TRUE, v |-> p.configDir],
    description |-> Member("description", p.description),
    createdAt |-> [k |-> "createdAt", written |-> TRUE, v |-> p.createdAt],
    apiKeyStorage |-> Member("apiKeyStorage", p.apiKeyStorage),
    envOverrides |-> StringifyOverrides(p.envOverrides) ]
ParseProfile(e) ==
  [ name |-> e.name,
    authType |-> MemberValue(e.authType),
    configDir |-> e.configDir.v,
    description |-> MemberValue(e.description),
    createdAt |-> e.createdAt.v,
    apiKeyStorage |-> MemberValue(e.apiKeyStorage),
    envOverrides |-> ParseOverrides(e.envOverrides) ]

\* JSON.stringify(config, null, 2) + "\n", as the lines of the document
Serialize(c) ==
  << [k |-> "{", v |-> << >>],
     [k |-> "version", v |-> << c.version >>],
     [k |-> "activeProfile", v |-> << c.activeProfile >>],
     [k |-> "profiles", v |-> [i \in 1..Len(c.profiles) |-> StringifyProfile(c.profiles[i])]],
     [k |-> "}", v |-> << >>],
     [k |-> "\n", v |-> << >>] >>

\* JSON.parse: only a complete document parses
Parses(data) ==
  /\ Len(data) >= 5
  /\ data[1].k = "{" /\ data[2].k = "version" /\ data[3].k = "activeProfile"
  /\ data[4].k = "profiles" /\ data[5].k = "}"
Parsed(data) ==
  [version |-> data[2].v[1], activeProfile |-> data[3].v[1],
   profiles |-> [i \in 1..Len(data[4].v) |-> ParseProfile(data[4].v[i])]]

validateConfig(c) ==
  /\ c.version = 1
  /\ \A i \in 1..Len(c.profiles) : c.profiles[i].authType \in AUTH_TYPES

NoFile == [exists |-> FALSE, data |-> << >>, mode |-> "none"]

\* loadConfig: the default when no file exists, a throw on a malformed or
\* invalid file, the parsed registry otherwise
\* getConfigPath: <MULTICC_DIR>/config.json
ConfigPath == "MULTICC_DIR/config.json"
\* the error loadConfig throws, lines 266-276: its kind and the path its
\* message names
NoError == [kind |-> "none", path |-> ""]
loadConfigError(file) ==
  IF ~file.exists THEN NoError
  ELSE IF ~Parses(file.data) THEN [kind |-> "malformed JSON", path |-> ConfigPath]
  ELSE IF ~validateConfig(Parsed(file.data))
    THEN [kind |-> "invalid structure", path |-> ConfigPath]
  ELSE NoError

loadConfigLenient(file) ==
  IF ~file.exists THEN [ok |-> TRUE, value |-> defaultConfig]
  ELSE IF ~Parses(file.data) THEN [ok |-> TRUE, value |-> defaultConfig]
  ELSE IF ~validateConfig(Parsed(file.data)) THEN [ok |-> TRUE, value |-> defaultConfig]
  ELSE [ok |-> TRUE, value |-> Parsed(file.data)]
loadConfigStrict(file) ==
  IF ~file.exists THEN [ok |-> FALSE, value |-> defaultConfig]
  ELSE IF ~Parses(file.data) THEN [ok |-> FALSE, value |-> defaultConfig]
  ELSE IF ~validateConfig(Parsed(file.data)) THEN [ok |-> FALSE, value |-> defaultConfig]
  ELSE [ok |-> TRUE, value |-> Parsed(file.data)]
loadConfig(file) ==
  IF ~file.exists THEN [ok |-> TRUE, value |-> defaultConfig]
  ELSE IF ~Parses(file.data) THEN [ok |-> FALSE, value |-> defaultConfig]
  ELSE IF ~validateConfig(Parsed(file.data)) THEN [ok |-> FALSE, value |-> defaultConfig]
  ELSE [ok |-> TRUE, value |-> Parsed(file.data)]

\* ------------------------------------------------- file system primitives
NoFd == [kind |-> "none", s |-> 0]
NoCmd == [op |-> "none", name |-> "", authType |-> "", at |-> 0]
\* the positions of saveConfig before its renameSync has run
SavePre == {"saveMkdir", "saveOpen", "saveWrite", "saveChmod", "saveRename"}
InFlight == SavePre \cup {"mkdirProfile", "rmProfile"}
Quiescent == {"idle"}

\* another invocation is between its load and its end
OthersInFlight(p) == \E r \in Procs \ {p} : pc[r] \in InFlight

\* the path saveConfig writes its content to: the temp file, never config.json
WriteTargetDirect(s) == [kind |-> "registry", s |-> 0]
WriteTarget(s) == [kind |-> "temp", s |-> s]

\* fs.openSync(path, "w"): create an empty file, or truncate the one there
OpenTrunc(file) ==
  IF file.exists THEN [file EXCEPT !.data = << >>]
  ELSE [exists |-> TRUE, data |-> << >>, mode |-> "default"]

\* fs.renameSync(tempPath, configPath): the temp file's inode becomes config.json
Renamed(temp) == temp

\* ------------------------------------------------------------ invocations
\* handleCreate up to its first write: validate, loadConfig, duplicate check
CreateBegin(p) ==
  \E name \in ProfileNames, authType \in {"oauth", "api-key"} :
    LET ld == loadConfig(registryFile) IN
    /\ pc[p] \in Quiescent /\ clock < MaxCmds
    /\ clock' = clock + 1
    /\ cmd' = [cmd EXCEPT ![p] = [op |-> "create", name |-> name, authType |-> authType, at |-> clock + 1]]
    /\ tempPath' = [tempPath EXCEPT ![p] = 0]
    /\ saved' = [saved EXCEPT ![p] = << >>]
    /\ IF ~ld.ok
         THEN /\ outcome' = [outcome EXCEPT ![p] = "throw"]
              /\ pc' = [pc EXCEPT ![p] = "idle"]
              /\ config' = [config EXCEPT ![p] = defaultConfig]
              /\ loadedBefore' = [q \in Procs |-> IF q = p THEN {} ELSE loadedBefore[q] \ {p}]
         ELSE IF Truthy(ld.value.profiles, name)
         THEN /\ outcome' = [outcome EXCEPT ![p] = "exit1"]
              /\ pc' = [pc EXCEPT ![p] = "idle"]
              /\ config' = [config EXCEPT ![p] = defaultConfig]
              /\ loadedBefore' = [q \in Procs |-> IF q = p THEN {} ELSE loadedBefore[q] \ {p}]
         ELSE /\ outcome' = [outcome EXCEPT ![p] = "running"]
              /\ pc' = [pc EXCEPT ![p] = "mkdirProfile"]
              /\ config' = [config EXCEPT ![p] = ld.value]
              /\ loadedBefore' = [q \in Procs |->
                    IF q = p THEN { r \in Procs \ {p} : pc[r] \in InFlight }
                    ELSE loadedBefore[q] \ {p}]
    /\ overlapped' = (overlapped \/ OthersInFlight(p))
    /\ UNCHANGED << fsVars, fd, lastRename, published, secretVars, launched, credVars,
                    lastCmd, checked, calls >>

\* handleCreate lines 99-112: mkdir the profile directory, add the profile,
\* make it active when it is the first one
CreateMkdir(p) ==
  LET c == config[p]
      name == cmd[p].name
      profiles == SetProfile(c.profiles,
                    NewProfile(name, cmd[p].authType, getProfileDir(name), Undefined, cmd[p].at))
      isFirstProfile == Cardinality(Keys(profiles)) = 1
  IN
  /\ pc[p] = "mkdirProfile"
  /\ profileDirs' = profileDirs \cup {name}
  /\ config' = [config EXCEPT ![p] =
        [c EXCEPT !.profiles = profiles,
                  !.activeProfile = IF isFirstProfile THEN name ELSE @]]
  /\ pc' = [pc EXCEPT ![p] = "saveMkdir"]
  /\ UNCHANGED << platform, multiccDir, registryFile, tempFiles, cmd, tempPath, fd, outcome,
                  clock, histVars, secretVars, launched, credVars, regVars >>

\* handleSwitch up to saveConfig: loadConfig, existence check, set activeProfile
SwitchBegin(p) ==
  \E name \in ProfileNames :
    LET ld == loadConfig(registryFile) IN
    /\ pc[p] \in Quiescent /\ clock < MaxCmds
    /\ clock' = clock + 1
    /\ cmd' = [cmd EXCEPT ![p] = [op |-> "use", name |-> name, authType |-> "", at |-> clock + 1]]
    /\ tempPath' = [tempPath EXCEPT ![p] = 0]
    /\ saved' = [saved EXCEPT ![p] = << >>]
    /\ IF ~ld.ok
         THEN /\ outcome' = [outcome EXCEPT ![p] = "throw"]
              /\ pc' = [pc EXCEPT ![p] = "idle"]
              /\ config' = [config EXCEPT ![p] = defaultConfig]
              /\ loadedBefore' = [q \in Procs |-> IF q = p THEN {} ELSE loadedBefore[q] \ {p}]
         ELSE IF ~Truthy(ld.value.profiles, name)
         THEN /\ outcome' = [outcome EXCEPT ![p] = "exit1"]
              /\ pc' = [pc EXCEPT ![p] = "idle"]
              /\ config' = [config EXCEPT ![p] = defaultConfig]
              /\ loadedBefore' = [q \in Procs |-> IF q = p THEN {} ELSE loadedBefore[q] \ {p}]
         ELSE /\ outcome' = [outcome EXCEPT ![p] = "running"]
              /\ pc' = [pc EXCEPT ![p] = "saveMkdir"]
              /\ config' = [config EXCEPT ![p] = [ld.value EXCEPT !.activeProfile = name]]
              /\ loadedBefore' = [q \in Procs |->
                    IF q = p THEN { r \in Procs \ {p} : pc[r] \in InFlight }
                    ELSE loadedBefore[q] \ {p}]
    /\ overlapped' = (overlapped \/ OthersInFlight(p))
    /\ UNCHANGED << fsVars, fd, lastRename, published, secretVars, launched, credVars,
                    lastCmd, checked, calls >>

\* saveConfig line 284: fs.mkdirSync(dir, {recursive: true}); lines 286-287
\* fix the content the save was given
SaveMkdir(p) ==
  /\ pc[p] = "saveMkdir"
  /\ multiccDir' = TRUE
  /\ saved' = [saved EXCEPT ![p] = Serialize(config[p])]
  /\ pc' = [pc EXCEPT ![p] = "saveOpen"]
  /\ UNCHANGED << platform, profileDirs, registryFile, tempFiles, cmd, config, tempPath, fd,
                  outcome, clock, lastRename, published, loadedBefore, secretVars, launched, credVars, regVars >>

\* saveConfig lines 286, 289: draw the random suffix; writeFileSync opens the
\* temp path for writing, creating or truncating it
SaveOpen(p) ==
  \E s \in Suffixes :
    LET t == WriteTarget(s) IN
    /\ pc[p] = "saveOpen"
    /\ tempPath' = [tempPath EXCEPT ![p] = s]
    /\ fd' = [fd EXCEPT ![p] = t]
    /\ IF t.kind = "temp"
         THEN /\ tempFiles' = [tempFiles EXCEPT ![s] = OpenTrunc(@)]
              /\ UNCHANGED registryFile
         ELSE /\ registryFile' = OpenTrunc(registryFile)
              /\ UNCHANGED tempFiles
    /\ pc' = [pc EXCEPT ![p] = "saveWrite"]
    /\ UNCHANGED << platform, multiccDir, profileDirs, cmd, config, outcome, clock,
                    histVars, secretVars, launched, credVars, regVars >>

\* saveConfig line 289: writeFileSync writes the content through the open
\* descriptor (to whatever name the inode has by now) and closes it
SaveWrite(p) ==
  /\ pc[p] = "saveWrite"
  /\ CASE fd[p].kind = "temp" ->
            /\ tempFiles' = [tempFiles EXCEPT ![fd[p].s].data = saved[p]]
            /\ UNCHANGED registryFile
       [] fd[p].kind = "registry" ->
            /\ registryFile' = [registryFile EXCEPT !.data = saved[p]]
            /\ UNCHANGED tempFiles
       [] OTHER -> UNCHANGED << registryFile, tempFiles >>
  /\ fd' = [fd EXCEPT ![p] = NoFd]
  /\ pc' = [pc EXCEPT ![p] = "saveChmod"]
  /\ UNCHANGED << platform, multiccDir, profileDirs, cmd, config, tempPath, outcome, clock,
                  histVars, secretVars, launched, credVars, regVars >>

\* saveConfig lines 291-293: chmodSync(tempPath, 0o600) unless win32; ENOENT
\* when the temp path is gone
SaveChmod(p) ==
  /\ pc[p] = "saveChmod"
  /\ IF platform = "win32"
       THEN /\ pc' = [pc EXCEPT ![p] = "saveRename"]
            /\ UNCHANGED << tempFiles, outcome >>
       ELSE IF tempFiles[tempPath[p]].exists
       THEN /\ tempFiles' = [tempFiles EXCEPT ![tempPath[p]].mode = "0600"]
            /\ pc' = [pc EXCEPT ![p] = "saveRename"]
            /\ UNCHANGED outcome
       ELSE /\ outcome' = [outcome EXCEPT ![p] = "throw"]
            /\ pc' = [pc EXCEPT ![p] = "idle"]
            /\ UNCHANGED tempFiles
  /\ config' = [config EXCEPT ![p] = IF pc'[p] = "idle" THEN defaultConfig ELSE @]
  /\ saved' = [saved EXCEPT ![p] = IF pc'[p] = "idle" THEN << >> ELSE @]
  /\ UNCHANGED << platform, multiccDir, profileDirs, registryFile, cmd, tempPath, fd,
                  clock, lastRename, published, loadedBefore, secretVars, launched, credVars, regVars >>

\* saveConfig line 295: renameSync(tempPath, configPath), then the command
\* reports success; ENOENT when the temp path is gone
SaveRename(p) ==
  LET s == tempPath[p] IN
  /\ pc[p] = "saveRename"
  /\ IF tempFiles[s].exists
       THEN /\ registryFile' = Renamed(tempFiles[s])
            /\ tempFiles' = [tempFiles EXCEPT ![s] = NoFile]
            /\ fd' = [q \in Procs |->
                  IF fd[q].kind = "temp" /\ fd[q].s = s THEN [kind |-> "registry", s |-> 0]
                  ELSE IF fd[q].kind = "registry" THEN [kind |-> "orphan", s |-> 0]
                  ELSE fd[q]]
            /\ lastRename' = p
            /\ published' = saved[p]
            /\ outcome' = [outcome EXCEPT ![p] = "success"]
       ELSE /\ outcome' = [outcome EXCEPT ![p] = "throw"]
            /\ UNCHANGED << registryFile, tempFiles, fd, lastRename, published >>
  /\ pc' = [pc EXCEPT ![p] = IF cmd[p].op = "delete" /\ tempFiles[s].exists
                               THEN "rmProfile" ELSE "idle"]
  /\ config' = [config EXCEPT ![p] = defaultConfig]
  /\ saved' = [saved EXCEPT ![p] = << >>]
  /\ UNCHANGED << platform, multiccDir, profileDirs, cmd, tempPath, clock,
                  loadedBefore, secretVars, launched, credVars, regVars >>

\* the process is killed between two steps: its descriptor is closed, what it
\* wrote so far stays
Crash(p) ==
  /\ pc[p] \in InFlight
  /\ pc' = [pc EXCEPT ![p] = "idle"]
  /\ outcome' = [outcome EXCEPT ![p] = "crashed"]
  /\ fd' = [fd EXCEPT ![p] = NoFd]
  /\ config' = [config EXCEPT ![p] = defaultConfig]
  /\ saved' = [saved EXCEPT ![p] = << >>]
  /\ UNCHANGED << fsVars, cmd, tempPath, clock, lastRename, published, loadedBefore,
                  secretVars, launched, credVars, regVars >>

\* ------------------------------------------------------- initial states
NoOp == [kind |-> "none", name |-> "", imported |-> FALSE, avail |-> FALSE,
         vFault |-> FALSE, fFault |-> "none", result |-> Null, raised |-> FALSE,
         vaultTried |-> FALSE, fileTried |-> FALSE, warned |-> 0]
NoMut == [kind |-> "none", secret |-> Null, vaultOk |-> FALSE, fileOk |-> FALSE,
          hadBoth |-> FALSE]
NoLaunch == [op |-> "none", spawned |-> FALSE]

InitFs ==
  /\ platform \in {"posix", "win32"}
  /\ multiccDir = FALSE
  /\ profileDirs = {}
  /\ registryFile = NoFile
  /\ tempFiles = [s \in Suffixes |-> NoFile]

InitProcs ==
  /\ pc = [p \in Procs |-> "idle"]
  /\ cmd = [p \in Procs |-> NoCmd]
  /\ config = [p \in Procs |-> defaultConfig]
  /\ tempPath = [p \in Procs |-> 0]
  /\ fd = [p \in Procs |-> NoFd]
  /\ outcome = [p \in Procs |-> "none"]
  /\ clock = 0
  /\ saved = [p \in Procs |-> << >>]
  /\ lastRename = "none"
  /\ published = << >>
  /\ loadedBefore = [p \in Procs |-> {}]

InitSecretIdle ==
  /\ keyringChecked = FALSE
  /\ keyringModule = Null
  /\ importCount = 0
  /\ vault = [n \in SecretNames |-> Null]
  /\ fallbackFiles = [n \in SecretNames |-> Null]
  /\ lastOp = NoOp
  /\ lastMut = [n \in SecretNames |-> NoMut]

\* a JSON value read as a field: its typeof and, for a number, its value
AbsentField == [t |-> "undefined", v |-> 0]
StringField == [t |-> "string", v |-> 0]
NumberField(n) == [t |-> "number", v |-> n]

\* what obj["claudeAiOauth"] / obj["oauthAccount"] may hold
NoCred == [kind |-> "undefined", accessToken |-> AbsentField,
           refreshToken |-> AbsentField, expiresAt |-> AbsentField]
\* .credentials.json of a profile directory
MissingFile == [kind |-> "missing", claudeAiOauth |-> NoCred, oauthAccount |-> NoCred]
DirNames == {"work", "home"}
NoStatus == [op |-> "none"]

InitCred ==
  /\ credFiles = [n \in DirNames |-> MissingFile]
  /\ status = NoStatus

\* no registry command has run as a whole, no pure function was called
NoRun == [op |-> "none"]
NoCheck == [op |-> "none"]
NoCall == [pc |-> "idle"]
NoCalls == [loadable |-> FALSE, of |-> [a \in {"c1", "c2"} |-> NoCall]]
InitRun == lastCmd = NoRun /\ checked = NoCheck /\ calls = NoCalls /\ overlapped = FALSE

Init == InitFs /\ InitProcs /\ InitSecretIdle /\ InitCred /\ InitRun /\ launched = NoLaunch

\* the secret store's platform: every win32 behaviour of keyring.ts is also a
\* posix behaviour (win32 only skips the chmodSync of line 49)
InitSecret == Init /\ platform = "posix"

Step(p) ==
  \/ CreateBegin(p)
  \/ CreateMkdir(p)
  \/ SwitchBegin(p)
  \/ SaveMkdir(p)
  \/ SaveOpen(p)
  \/ SaveWrite(p)
  \/ SaveChmod(p)
  \/ SaveRename(p)
  \/ Crash(p)

\* invocations interleave freely
Next == \E p \in Procs : Step(p)
Spec == Init /\ [][Next]_vars

\* invocations run one at a time: a command begins only when no other is in flight
NextSeq == \E p \in Procs : (\A q \in Procs \ {p} : pc[q] \in Quiescent) /\ Step(p)
SpecSeq == Init /\ [][NextSeq]_vars

\* ============================================================ secret store
\* loadKeyring line 22: the memo flag decides whether import() runs
NotMemoized == FALSE
AlreadyChecked == keyringChecked

\* loadKeyring lines 21-34; importOk: whether import("@napi-rs/keyring") resolves
loadKeyring(importOk) ==
  IF AlreadyChecked THEN [module |-> keyringModule, imported |-> FALSE]
  ELSE [module |-> IF importOk THEN "mod" ELSE Null, imported |-> TRUE]

\* whether an exception thrown inside one of the try blocks leaves the function
EscapesUncaught(threw) == threw
EscapesTry(threw) == FALSE

\* storeSecret lines 53-81. kr: the keyring module is loaded; vOut: what
\* setPassword does; fOut: where writeFallbackFile throws, if it does;
\* v, f: what the vault and the fallback file hold for the name
storeSecret(kr, vOut, fOut, secret, v, f) ==
  LET vaultStored == kr /\ vOut = "ok"
      vaultThrew == kr /\ vOut = "throw"
      fileThrew == fOut # "ok"
      fileWritten == fOut \in {"ok", "throwAfterWrite"}
  IN
  IF vaultStored
    THEN [vault |-> secret, file |-> f, vaultTried |-> TRUE, fileTried |-> FALSE,
          warned |-> 0, raised |-> FALSE]
    ELSE [vault |-> v, file |-> IF fileWritten THEN secret ELSE f,
          vaultTried |-> kr, fileTried |-> TRUE,
          warned |-> 1 + (IF fileThrew THEN 1 ELSE 0),
          raised |-> EscapesTry(vaultThrew) \/ EscapesTry(fileThrew)]

\* retrieveSecret, consulting the fallback file before the vault
retrieveSecretFileFirst(kr, vOut, fOut, v, f) ==
  IF f # Null /\ fOut = "ok"
    THEN [result |-> f, vaultTried |-> FALSE, fileTried |-> TRUE, warned |-> 0,
          raised |-> FALSE]
    ELSE [result |-> IF kr /\ vOut = "ok" THEN v ELSE Null, vaultTried |-> kr,
          fileTried |-> TRUE, warned |-> 0, raised |-> FALSE]

\* retrieveSecret lines 83-108. getPassword returns the entry or throws (no
\* entry, or a keyring error: vOut = "throw"); readFileSync may throw
retrieveSecret(kr, vOut, fOut, v, f) ==
  LET vaultYields == kr /\ vOut = "ok" /\ v # Null
      fileThrew == f # Null /\ fOut = "throw"
  IN
  IF vaultYields
    THEN [result |-> v, vaultTried |-> TRUE, fileTried |-> FALSE, warned |-> 0,
          raised |-> FALSE]
    ELSE [result |-> IF f # Null /\ ~fileThrew THEN f ELSE Null,
          vaultTried |-> kr, fileTried |-> TRUE,
          warned |-> IF fileThrew THEN 1 ELSE 0,
          raised |-> EscapesTry(kr) \/ EscapesTry(fileThrew)]

\* deleteSecret lines 121-129 are reached whatever lines 112-119 did
FallbackDeleteSkippedAfterVault(kr, vOut) == ~(kr /\ vOut = "ok")
FallbackDeleteReached(kr, vOut) == TRUE

\* deleteSecret lines 110-130. deletePassword removes the entry or throws
deleteSecret(kr, vOut, fOut, v, f) ==
  LET vaultThrew == kr /\ vOut = "throw"
      fileTried == FallbackDeleteReached(kr, vOut)
      fileThrew == fileTried /\ f # Null /\ fOut = "throw"
  IN
  [vault |-> IF kr /\ vOut = "ok" THEN Null ELSE v,
   file |-> IF fileTried /\ ~fileThrew THEN Null ELSE f,
   vaultTried |-> kr, fileTried |-> fileTried,
   warned |-> IF fileThrew THEN 1 ELSE 0,
   raised |-> EscapesTry(vaultThrew) \/ EscapesTry(fileThrew)]

\* what every secret store call does to the loadKeyring memo
Memo(ld) ==
  /\ keyringChecked' = TRUE
  /\ keyringModule' = ld.module
  /\ importCount' = importCount + (IF ld.imported THEN 1 ELSE 0)

\* an outcome is drawn only for an operation the call performs
Relevant(ld, importOk, kr, vOut, fileUsed, fOut) ==
  /\ ~ld.imported => importOk
  /\ ~kr => vOut = "ok"
  /\ ~fileUsed => fOut = "ok"

StoreSecret ==
  \E name \in SecretNames, secret \in Secrets, importOk \in BOOLEAN,
     vOut \in {"ok", "throw"}, fOut \in {"ok", "throwBefore", "throwAfterWrite"} :
    LET ld == loadKeyring(importOk)
        kr == ld.module # Null
        r == storeSecret(kr, vOut, fOut, secret, vault[name], fallbackFiles[name])
    IN
    /\ Relevant(ld, importOk, kr, vOut, r.fileTried, fOut)
    \* writeFallbackFile line 48: no chmodSync on win32
    /\ fOut = "throwAfterWrite" => platform # "win32"
    /\ Memo(ld)
    /\ vault' = [vault EXCEPT ![name] = r.vault]
    /\ fallbackFiles' = [fallbackFiles EXCEPT ![name] = r.file]
    /\ lastOp' = [kind |-> "store", name |-> name,
                  imported |-> ld.imported, avail |-> kr,
                  vFault |-> kr /\ vOut = "throw",
                  fFault |-> IF r.fileTried /\ fOut # "ok" THEN fOut ELSE "none",
                  result |-> Null, raised |-> r.raised,
                  vaultTried |-> r.vaultTried, fileTried |-> r.fileTried,
                  warned |-> r.warned]
    /\ lastMut' = [lastMut EXCEPT ![name] =
                     [kind |-> "store", secret |-> secret,
                      vaultOk |-> r.vaultTried /\ ~r.fileTried,
                      fileOk |-> r.fileTried /\ r.file = secret,
                      hadBoth |-> FALSE]]
    /\ UNCHANGED << fsVars, procVars, histVars, launched, credVars, regVars >>

\* one call retrieveSecret(name) and what it does to the process's memo
RetrieveCall(name, importOk, vOut, fOut) ==
  LET ld == loadKeyring(importOk)
      kr == ld.module # Null
      r == retrieveSecret(kr, vOut, fOut, vault[name], fallbackFiles[name])
  IN
  /\ Relevant(ld, importOk, kr, vOut, r.fileTried /\ fallbackFiles[name] # Null, fOut)
  /\ Memo(ld)
  /\ lastOp' = [kind |-> "retrieve", name |-> name,
                imported |-> ld.imported, avail |-> kr,
                vFault |-> kr /\ vOut = "throw",
                fFault |-> IF r.fileTried /\ fallbackFiles[name] # Null /\ fOut = "throw"
                             THEN "throw" ELSE "none",
                result |-> r.result, raised |-> r.raised,
                vaultTried |-> r.vaultTried, fileTried |-> r.fileTried,
                warned |-> r.warned]

RetrieveSecret ==
  \E name \in SecretNames, importOk \in BOOLEAN,
     vOut \in {"ok", "throw"}, fOut \in {"ok", "throw"} :
    /\ RetrieveCall(name, importOk, vOut, fOut)
    /\ UNCHANGED << fsVars, procVars, histVars, launched, vault, fallbackFiles, lastMut, credVars, regVars >>

DeleteSecret ==
  \E name \in SecretNames, importOk \in BOOLEAN,
     vOut \in {"ok", "throw"}, fOut \in {"ok", "throw"} :
    LET ld == loadKeyring(importOk)
        kr == ld.module # Null
        r == deleteSecret(kr, vOut, fOut, vault[name], fallbackFiles[name])
        fileThrew == r.fileTried /\ fallbackFiles[name] # Null /\ fOut = "throw"
    IN
    /\ Relevant(ld, importOk, kr, vOut, r.fileTried /\ fallbackFiles[name] # Null, fOut)
    /\ Memo(ld)
    /\ vault' = [vault EXCEPT ![name] = r.vault]
    /\ fallbackFiles' = [fallbackFiles EXCEPT ![name] = r.file]
    /\ lastOp' = [kind |-> "delete", name |-> name,
                  imported |-> ld.imported, avail |-> kr,
                  vFault |-> kr /\ vOut = "throw",
                  fFault |-> IF fileThrew THEN "throw" ELSE "none",
                  result |-> Null, raised |-> r.raised,
                  vaultTried |-> r.vaultTried, fileTried |-> r.fileTried,
                  warned |-> r.warned]
    /\ lastMut' = [lastMut EXCEPT ![name] =
                     [kind |-> "delete", secret |-> Null,
                      vaultOk |-> kr /\ vOut = "ok",
                      fileOk |-> r.fileTried /\ ~fileThrew,
                      hadBoth |-> vault[name] # Null /\ fallbackFiles[name] # Null]]
    /\ UNCHANGED << fsVars, procVars, histVars, launched, credVars, regVars >>

\* the process ends and a new one starts: keyring.ts lines 18-19 run again,
\* the vault and the fallback files stay
ProcessStart ==
  /\ keyringChecked
  /\ keyringChecked' = FALSE
  /\ keyringModule' = Null
  /\ importCount' = 0
  /\ lastOp' = NoOp
  /\ lastMut' = [n \in SecretNames |-> NoMut]
  /\ UNCHANGED << fsVars, procVars, histVars, launched, vault, fallbackFiles, credVars, regVars >>

NextSecret == StoreSecret \/ RetrieveSecret \/ DeleteSecret \/ ProcessStart
SpecSecret == InitSecret /\ [][NextSecret]_vars

\* ------------------------------------------------ overlapping async calls
\* the async calls of storeSecret / retrieveSecret / deleteSecret one process
\* has in flight
Callers == {"c1", "c2"}

\* loadKeyring lines 22-25, run synchronously by the call: a set flag returns
\* the memoized module as it is now; otherwise the flag is set and the
\* import awaited
CallBegin(a) ==
  /\ calls.of[a].pc = "idle"
  /\ \E op \in {"store", "retrieve", "delete"}, name \in SecretNames :
       /\ op # "store" => name = "work"
       /\ calls' = [calls EXCEPT !.of[a] =
                      [pc |-> IF AlreadyChecked THEN "loaded" ELSE "importing",
                       op |-> op, name |-> name,
                       module |-> IF AlreadyChecked THEN keyringModule ELSE Null,
                       result |-> Null]]
  /\ keyringChecked' = TRUE
  /\ UNCHANGED << fsVars, procVars, histVars, keyringModule, importCount, vault,
                  fallbackFiles, lastOp, lastMut, launched, credVars, lastCmd, checked, overlapped >>

\* loadKeyring lines 26-33: the awaited import settles
ImportSettles(a) ==
  /\ calls.of[a].pc = "importing"
  /\ keyringModule' = IF calls.loadable THEN "mod" ELSE Null
  /\ importCount' = importCount + 1
  /\ calls' = [calls EXCEPT !.of[a].pc = "loaded", !.of[a].module = keyringModule']
  /\ UNCHANGED << fsVars, procVars, histVars, keyringChecked, vault, fallbackFiles,
                  lastOp, lastMut, launched, credVars, lastCmd, checked, overlapped >>

\* the rest of storeSecret (lines 58-80), retrieveSecret (87-107) or
\* deleteSecret (112-129) with the module loadKeyring returned
CallEnd(a) ==
  LET c == calls.of[a]
      kr == c.module # Null
      v == vault[c.name]
      f == fallbackFiles[c.name]
      stored == storeSecret(kr, "ok", "ok", "sk-ant-A", v, f)
      deleted == deleteSecret(kr, "ok", "ok", v, f)
  IN
  /\ c.pc = "loaded"
  /\ vault' = [vault EXCEPT ![c.name] = CASE c.op = "store" -> stored.vault
                                           [] c.op = "delete" -> deleted.vault
                                           [] OTHER -> @]
  /\ fallbackFiles' = [fallbackFiles EXCEPT ![c.name] =
                         CASE c.op = "store" -> stored.file
                           [] c.op = "delete" -> deleted.file
                           [] OTHER -> @]
  /\ calls' = [calls EXCEPT !.of[a].pc = "returned",
                            !.of[a].result = IF c.op = "retrieve"
                                               THEN retrieveSecret(kr, "ok", "ok", v, f).result
                                               ELSE Null]
  /\ UNCHANGED << fsVars, procVars, histVars, keyringChecked, keyringModule, importCount,
                  lastOp, lastMut, launched, credVars, lastCmd, checked, overlapped >>

\* the caller awaits the call and makes its next one
CallAgain(a) ==
  /\ calls.of[a].pc = "returned"
  /\ calls' = [calls EXCEPT !.of[a] = NoCall]
  /\ UNCHANGED << fsVars, procVars, histVars, secretVars, launched, credVars, lastCmd,
                  checked, overlapped >>

InitLoad ==
  /\ InitFs /\ InitProcs /\ InitSecretIdle /\ InitCred /\ launched = NoLaunch
  /\ lastCmd = NoRun /\ checked = NoCheck /\ overlapped = FALSE
  /\ platform = "posix"
  /\ \E loadable \in BOOLEAN : calls = [NoCalls EXCEPT !.loadable = loadable]

NextLoad ==
  \E a \in Callers : CallBegin(a) \/ ImportSettles(a) \/ CallEnd(a) \/ CallAgain(a)
SpecLoad == InitLoad /\ [][NextLoad]_vars

\* ===================================================== credential resolver
Times == 0..MaxTime

\* the credential objects a file may hold under one of the two keys:
\* well-formed ones, and ones with one field missing or of the wrong type
CredObject(at, rt, ex) ==
  [kind |-> "object", accessToken |-> at, refreshToken |-> rt, expiresAt |-> ex]
WellFormedCreds == { CredObject(StringField, StringField, NumberField(n)) : n \in Times }
MalformedCreds ==
  { CredObject(AbsentField, StringField, NumberField(0)),
    CredObject(StringField, NumberField(0), NumberField(0)),
    CredObject(StringField, StringField, StringField),
    CredObject(StringField, StringField, AbsentField),
    CredObject(AbsentField, AbsentField, AbsentField) }
CredValues ==
  { NoCred, [NoCred EXCEPT !.kind = "null"], [NoCred EXCEPT !.kind = "scalar"] }
  \cup WellFormedCreds \cup MalformedCreds

\* the states of .credentials.json: absent, unreadable, not JSON, JSON that
\* is null / a scalar / an array, or a JSON object with its two keys
CredFiles ==
  { [MissingFile EXCEPT !.kind = k] :
      k \in {"missing", "unreadable", "notJson", "null", "scalar", "array"} }
  \cup
  { [kind |-> "object", claudeAiOauth |-> a, oauthAccount |-> b] :
      a \in CredValues, b \in CredValues }

\* a ?? b
Nullish(a, b) == IF a.kind \in {"undefined", "null"} THEN b ELSE a

\* readOAuthCredentials lines 56-62
FieldsOkTokensOnly(creds) ==
  creds.accessToken.t = "string" /\ creds.refreshToken.t = "string"
FieldsOk(creds) ==
  /\ creds.accessToken.t = "string"
  /\ creds.refreshToken.t = "string"
  /\ creds.expiresAt.t = "number"

\* readOAuthCredentials lines 21-65: null, or the credentials
readOAuthCredentials(file) ==
  LET oauthData == Nullish(file.claudeAiOauth, file.oauthAccount) IN
  IF file.kind \in {"missing", "unreadable"} THEN [ok |-> FALSE, creds |-> NoCred]
  ELSE IF file.kind = "notJson" THEN [ok |-> FALSE, creds |-> NoCred]
  ELSE IF file.kind \in {"null", "scalar"} THEN [ok |-> FALSE, creds |-> NoCred]
  ELSE IF oauthData.kind # "object" THEN [ok |-> FALSE, creds |-> NoCred]
  ELSE IF ~FieldsOk(oauthData) THEN [ok |-> FALSE, creds |-> NoCred]
  ELSE [ok |-> TRUE, creds |-> oauthData]

\* the truthiness of an envOverrides entry (line 92)
TruthyValue(v) == v # Unset /\ v # ""
\* envOverrides?.[k] !== undefined (lines 117-139)
PresentTruthy(v) == v # Unset /\ v # ""
Present(v) == v # Unset

\* which sources getCredentialStatus consults for a profile
AsksSecretStore(profile) ==
  profile.authType = "api-key" /\ ~TruthyValue(profile.envOverrides["ANTHROPIC_API_KEY"])
ReadsCredFile(profile) == profile.authType = "oauth"

CredStatus(authenticated, method, expiresAt, expired) ==
  [authenticated |-> authenticated, method |-> method, expiresAt |-> expiresAt,
   expired |-> expired]

\* getCredentialStatus lines 67-147. file: .credentials.json of configDir;
\* now: Date.now(); secret: what retrieveSecret returned. A field the result
\* does not have is AbsentField / Undefined
getCredentialStatus(profile, file, now, secret) ==
  LET ov == profile.envOverrides
      read == readOAuthCredentials(file)
      expired == read.creds.expiresAt.v < now
  IN
  CASE profile.authType = "oauth" ->
         IF ~read.ok THEN CredStatus(FALSE, "oauth", AbsentField, Undefined)
         ELSE CredStatus(~expired, "oauth", read.creds.expiresAt,
                         IF expired THEN "true" ELSE "false")
    [] profile.authType = "api-key" ->
         IF TruthyValue(ov["ANTHROPIC_API_KEY"])
           THEN CredStatus(TRUE, "env-var", AbsentField, Undefined)
           ELSE CredStatus(secret # Null /\ secret # "", "api-key", AbsentField, Undefined)
    [] profile.authType = "bedrock" ->
         CredStatus(Present(ov["AWS_ACCESS_KEY_ID"]) \/ Present(ov["AWS_PROFILE"]),
                    "bedrock", AbsentField, Undefined)
    [] profile.authType = "vertex" ->
         CredStatus(Present(ov["GOOGLE_APPLICATION_CREDENTIALS"])
                      \/ Present(ov["CLOUD_ML_REGION"]),
                    "vertex", AbsentField, Undefined)
    [] profile.authType = "foundry" ->
         CredStatus(Present(ov["FOUNDRY_API_KEY"]), "foundry", AbsentField, Undefined)

\* one call getCredentialStatus(profile) (status.ts line 62) for a profile of
\* the registry, with what it does to the secret store's memo
GetCredentialStatus ==
  \E now \in Times, importOk \in BOOLEAN,
     vOut \in {"ok", "throw"}, fOut \in {"ok", "throw"} :
    LET loaded == loadConfig(registryFile) IN
    /\ loaded.ok
    /\ \E i \in 1..Len(loaded.value.profiles) :
         LET profile == loaded.value.profiles[i]
             secretName == LastSegment(profile.configDir)
             asks == AsksSecretStore(profile)
             secret == IF asks
                         THEN retrieveSecret(loadKeyring(importOk).module # Null, vOut, fOut,
                                             vault[secretName], fallbackFiles[secretName]).result
                         ELSE Null
             file == credFiles[profile.name]
         IN
         /\ IF asks
              THEN RetrieveCall(secretName, importOk, vOut, fOut)
              ELSE /\ importOk /\ vOut = "ok" /\ fOut = "ok"
                   /\ UNCHANGED << keyringChecked, keyringModule, importCount, lastOp >>
         /\ status' = [ op |-> "status", name |-> profile.name,
                        authType |-> profile.authType,
                        envOverrides |-> profile.envOverrides,
                        file |-> file, now |-> now,
                        asked |-> asks, secret |-> secret,
                        fileRead |-> ReadsCredFile(profile),
                        result |-> getCredentialStatus(profile, file, now, secret),
                        raised |-> /\ ReadsCredFile(profile)
                                   /\ EscapesTry(file.kind \in {"missing", "unreadable", "notJson"}) ]
    /\ UNCHANGED << fsVars, procVars, histVars, vault, fallbackFiles, lastMut, launched,
                    credFiles, regVars >>

\* the envOverrides a registry of the resolver's runs may carry: none, or
\* the keys of one provider set to a value or to the empty string
SetOverrides(S, val) == [k \in EnvVars |-> IF k \in S THEN val ELSE Unset]
StatusOverrides ==
  { SetOverrides(S, val) :
      S \in (SUBSET {"AWS_ACCESS_KEY_ID", "AWS_PROFILE"})
            \cup (SUBSET {"GOOGLE_APPLICATION_CREDENTIALS", "CLOUD_ML_REGION"})
            \cup {{"FOUNDRY_API_KEY"}, {"ANTHROPIC_API_KEY"}},
      val \in {"", "value"} }

\* one profile "work": an oauth profile with any credentials file, or a
\* profile of another auth type with any of the overrides, with or without a
\* credentials file and with or without secrets stored under its name
InitStatus ==
  /\ InitProcs /\ InitRun /\ launched = NoLaunch /\ status = NoStatus
  /\ platform = "posix"
  /\ tempFiles = [s \in Suffixes |-> NoFile]
  /\ multiccDir = TRUE /\ profileDirs = {"work"}
  /\ \E t \in AUTH_TYPES, ov \in StatusOverrides, file \in CredFiles,
        v \in {Null, "sk-ant-A"}, f \in {Null, "sk-ant-B"} :
       /\ t = "oauth" => ov = NoOverrides
       /\ t # "oauth" => file \in {MissingFile} \cup
                           { [kind |-> "object", claudeAiOauth |-> c, oauthAccount |-> NoCred]
                               : c \in WellFormedCreds }
       /\ (v # Null \/ f # Null) => t # "oauth"
       /\ registryFile =
            [exists |-> TRUE, mode |-> "0600",
             data |-> Serialize([version |-> 1, activeProfile |-> "work",
                                 profiles |-> << LaunchProfile("work", t, ov, 1) >>])]
       /\ credFiles = [n \in DirNames |-> IF n = "work" THEN file ELSE MissingFile]
       /\ vault = [n \in SecretNames |-> IF n = "work" THEN v ELSE Null]
       /\ fallbackFiles = [n \in SecretNames |-> IF n = "work" THEN f ELSE Null]
  /\ keyringChecked = FALSE /\ keyringModule = Null /\ importCount = 0
  /\ lastOp = NoOp
  /\ lastMut = [n \in SecretNames |-> NoMut]

NextStatus == GetCredentialStatus
SpecStatus == InitStatus /\ [][NextStatus]_vars

\* ============================================ launch / exec / shell / login
\* the tokens a raw argument list is made of
Tokens == {"work", "toString", "--", "explain this"}
ArgLists == UNION { [1..n -> Tokens] : n \in 0..MaxArgs }

\* Commander's [name] argument of "launch [name]" / "exec [name]" with
\* passThroughOptions and allowUnknownOption: the first element of cmd.args
CommanderName(rawArgs) == IF Len(rawArgs) = 0 THEN Undefined ELSE rawArgs[1]

\* a Function object such as Object.prototype.toString read as a Profile:
\* every field is undefined
InheritedMember ==
  [ name |-> "", authType |-> Undefined, configDir |-> << >>, description |-> Undefined,
    createdAt |-> 0, apiKeyStorage |-> Undefined, envOverrides |-> NoOverrides ]

\* config.profiles[name]
Lookup(profiles, name) ==
  IF name \in Keys(profiles)
    THEN [kind |-> "own", profile |-> profiles[KeyIndex(profiles, name)]]
  ELSE IF name \in ObjectPrototypeKeys
    THEN [kind |-> "inherited", profile |-> InheritedMember]
  ELSE [kind |-> "none", profile |-> InheritedMember]

\* handleLaunch lines 14-27, handleExec the same
Disambiguate(c, name, rawArgs) ==
  IF name # Undefined /\ Truthy(c.profiles, name)
    THEN [profileName |-> name, passthrough |-> Tail(rawArgs)]
    ELSE [profileName |-> c.activeProfile, passthrough |-> rawArgs]

\* handleLaunch lines 30-32
StripSeparator(args) ==
  IF Len(args) > 0 /\ args[1] = "--" THEN Tail(args) ELSE args

\* spawn(..., { shell: true }) of launch and exec: Node joins the command and
\* its arguments with single spaces and hands the line to the shell, which
\* splits it into words again; a token holding a space arrives as two words
ShellWords(token) == IF token = "explain this" THEN << "explain", "this" >> ELSE << token >>

RECURSIVE ShellSplit(_)
ShellSplit(args) ==
  IF Len(args) = 0 THEN << >> ELSE ShellWords(args[1]) \o ShellSplit(Tail(args))

\* a configDir as the string the registry holds
RECURSIVE PathString(_)
PathString(dir) ==
  IF Len(dir) = 0 THEN ""
  ELSE IF Len(dir) = 1 THEN dir[1]
  ELSE dir[1] \o "/" \o PathString(Tail(dir))

\* the keys the loop of buildProfileEnv lines 171-173 sets to undefined
UnsetByLoopApiKeyOnly(k) == k = "ANTHROPIC_API_KEY"
UnsetByLoop(k) == k \in AuthVarSet

\* buildProfileEnv lines 175-195: the value the switch gives key k, dflt when
\* it does not assign k
SwitchValueFallThrough(authType, k, secret, dflt) ==
  IF authType = "api-key" /\ k = "ANTHROPIC_API_KEY" /\ secret # Null /\ secret # ""
    THEN secret
  ELSE IF authType = "bedrock" /\ k \in {"CLAUDE_CODE_USE_BEDROCK", "CLAUDE_CODE_USE_VERTEX",
                                         "CLAUDE_CODE_USE_FOUNDRY"} THEN "1"
  ELSE IF authType = "vertex" /\ k \in {"CLAUDE_CODE_USE_VERTEX", "CLAUDE_CODE_USE_FOUNDRY"}
    THEN "1"
  ELSE IF authType = "foundry" /\ k = "CLAUDE_CODE_USE_FOUNDRY" THEN "1"
  ELSE dflt
SwitchValue(authType, k, secret, dflt) ==
  IF authType = "api-key" /\ k = "ANTHROPIC_API_KEY" /\ secret # Null /\ secret # ""
    THEN secret
  ELSE IF authType = "bedrock" /\ k = "CLAUDE_CODE_USE_BEDROCK" THEN "1"
  ELSE IF authType = "vertex" /\ k = "CLAUDE_CODE_USE_VERTEX" THEN "1"
  ELSE IF authType = "foundry" /\ k = "CLAUDE_CODE_USE_FOUNDRY" THEN "1"
  ELSE dflt

\* buildProfileEnv lines 197-201: every entry of envOverrides is assigned
ApplyOverridesToUnset(env, ov) ==
  [k \in EnvVars |-> IF ov[k] # Unset /\ env[k] \in {Unset, Undefined} THEN ov[k] ELSE env[k]]
ApplyOverrides(env, ov) ==
  [k \in EnvVars |-> IF ov[k] # Unset THEN ov[k] ELSE env[k]]

\* buildProfileEnv lines 161-204, given what config.profiles[profileName] is
\* and what retrieveSecret(profileName) returned. A key the object does not
\* have is Unset; a key holding undefined is Undefined
buildProfileEnv(lk, secret) ==
  LET profile == lk.profile
      base == [k \in EnvVars |->
                 IF k = "CLAUDE_CONFIG_DIR"
                   THEN (IF lk.kind = "own" THEN PathString(profile.configDir) ELSE Undefined)
                 ELSE IF UnsetByLoop(k) THEN Undefined
                 ELSE Unset]
      switched == [k \in EnvVars |-> SwitchValue(profile.authType, k, secret, base[k])]
  IN ApplyOverrides(switched, profile.envOverrides)

\* { ...process.env, ...profileEnv }: every key of profileEnv wins, also one
\* that holds undefined
MergeEnvParentFirst(parent, profileEnv) ==
  [k \in EnvVars |-> IF parent[k] # Unset THEN parent[k] ELSE profileEnv[k]]
MergeEnv(parent, profileEnv) ==
  [k \in EnvVars |-> IF profileEnv[k] # Unset THEN profileEnv[k] ELSE parent[k]]

\* spawn's env option: a key whose value is undefined is not given to the child
ChildEnvEmptyString(merged) ==
  [k \in EnvVars |-> IF merged[k] = Undefined THEN "" ELSE merged[k]]
ChildEnv(merged) ==
  [k \in EnvVars |-> IF merged[k] = Undefined THEN Unset ELSE merged[k]]

\* process.env of the multicc process: the variables in S set by the shell
ParentEnv(S) ==
  [k \in EnvVars |-> IF k \in S THEN "from-parent"
                     ELSE IF k = "PATH" THEN "/usr/bin" ELSE Unset]
ParentEnvs ==
  { ParentEnv(S) :
      S \in { {}, {"ANTHROPIC_API_KEY"}, AuthVarSet \cup {"CLAUDE_CONFIG_DIR"} } }

NoEnv == [k \in EnvVars |-> Unset]

\* resolveProfileName (config.ts): name ?? config.activeProfile
resolveProfileName(c, name) == IF name = Undefined THEN c.activeProfile ELSE name

\* how the child ends: the arguments of its "close" event are its exit code,
\* or null and the signal that ended it
NoChildEnd == [kind |-> "none", code |-> 0]
ChildEnds == { [kind |-> "exit", code |-> n] : n \in {0, 1, 2} }
             \cup { [kind |-> "signal", code |-> 0] }

\* what launch, exec, shell and login share once the profile name is
\* resolved: the lookup, buildProfileEnv with its retrieveSecret call, and
\* the spawn with { ...process.env, ...profileEnv }
Compose(op, rawArgs, name, c, d, args, lk, exits, exitCode, parent, importOk, vOut, fOut) ==
  LET needsSecret == ~exits /\ lk.profile.authType = "api-key"
      secret == IF needsSecret
                  THEN retrieveSecret(loadKeyring(importOk).module # Null, vOut, fOut,
                                      vault[d.profileName], fallbackFiles[d.profileName]).result
                  ELSE Null
      profileEnv == IF exits THEN NoEnv ELSE buildProfileEnv(lk, secret)
  IN
  /\ IF needsSecret
       THEN RetrieveCall(d.profileName, importOk, vOut, fOut)
       ELSE /\ importOk /\ vOut = "ok" /\ fOut = "ok"
            /\ UNCHANGED << keyringChecked, keyringModule, importCount, lastOp >>
  /\ launched' =
       [ op |-> op, rawArgs |-> rawArgs, name |-> name,
         keys |-> Keys(c.profiles), activeProfile |-> c.activeProfile,
         profileName |-> d.profileName, selected |-> d.passthrough, args |-> args,
         childArgs |-> IF op \in {"launch", "exec"} THEN ShellSplit(args) ELSE args,
         found |-> lk.kind, authType |-> lk.profile.authType,
         configDir |-> IF lk.kind = "own" THEN PathString(lk.profile.configDir)
                       ELSE Undefined,
         envOverrides |-> lk.profile.envOverrides, secret |-> secret,
         spawned |-> ~exits, exitCode |-> exitCode,
         exited |-> exits \/ op = "login", childEnd |-> NoChildEnd,
         parentEnv |-> parent, profileEnv |-> profileEnv,
         childEnv |-> IF exits THEN NoEnv ELSE ChildEnv(MergeEnv(parent, profileEnv)) ]
  /\ UNCHANGED << fsVars, procVars, histVars, vault, fallbackFiles, lastMut >>

\* handleLaunch lines 6-51 / handleExec to its spawn: load, disambiguate,
\* strip the separator, look the profile up, compose the environment, spawn
Invoke(op, rawArgs, parent, importOk, vOut, fOut) ==
  LET loaded == loadConfig(registryFile)
      c == loaded.value
      name == CommanderName(rawArgs)
      d == Disambiguate(c, name, rawArgs)
      args == StripSeparator(d.passthrough)
      lk == Lookup(c.profiles, d.profileName)
      exits == \/ ~loaded.ok
               \/ lk.kind = "none"
               \/ op = "exec" /\ Len(args) = 0
  IN
  /\ Compose(op, rawArgs, name, c, d, args, lk, exits, IF exits THEN 1 ELSE 0,
             parent, importOk, vOut, fOut)
  /\ UNCHANGED << credVars, regVars >>

HandleLaunch ==
  /\ launched.op = "none"
  /\ \E rawArgs \in ArgLists, parent \in ParentEnvs, importOk \in BOOLEAN,
        vOut \in {"ok", "throw"}, fOut \in {"ok", "throw"} :
       Invoke("launch", rawArgs, parent, importOk, vOut, fOut)

HandleExec ==
  /\ launched.op = "none"
  /\ \E rawArgs \in ArgLists, parent \in ParentEnvs, importOk \in BOOLEAN,
        vOut \in {"ok", "throw"}, fOut \in {"ok", "throw"} :
       Invoke("exec", rawArgs, parent, importOk, vOut, fOut)

\* the [name] argument of shell and login
NameArgs == {Undefined} \cup ProfileNames

\* handleShell lines 6-30: resolve the name, look the profile up, compose
\* the environment, spawn the shell
HandleShell ==
  /\ launched.op = "none"
  /\ \E name \in NameArgs, parent \in ParentEnvs, importOk \in BOOLEAN,
        vOut \in {"ok", "throw"}, fOut \in {"ok", "throw"} :
       LET loaded == loadConfig(registryFile)
           c == loaded.value
           d == [profileName |-> resolveProfileName(c, name), passthrough |-> << >>]
           lk == Lookup(c.profiles, d.profileName)
           exits == ~loaded.ok \/ lk.kind = "none"
       IN
       /\ Compose("shell", << >>, name, c, d, << >>, lk, exits, IF exits THEN 1 ELSE 0,
                  parent, importOk, vOut, fOut)
       /\ UNCHANGED << credVars, regVars >>

\* code ?? 0 of the "close" handlers
ExitCodeOrZero(end) == IF end.kind = "exit" THEN end.code ELSE 0

\* child.on("close", (code) => process.exit(code ?? 0)) of launch, exec and
\* shell
ChildClose ==
  /\ launched.op \in {"launch", "exec", "shell"}
  /\ launched.spawned /\ ~launched.exited
  /\ \E end \in ChildEnds :
       launched' = [launched EXCEPT !.exited = TRUE, !.childEnd = end,
                                    !.exitCode = ExitCodeOrZero(end)]
  /\ UNCHANGED << fsVars, procVars, histVars, secretVars, credVars, regVars >>

\* child.on("error", ...) of launch, exec and shell: the spawn failed
ChildError ==
  /\ launched.op \in {"launch", "exec", "shell"}
  /\ launched.spawned /\ ~launched.exited
  /\ launched' = [launched EXCEPT !.exited = TRUE,
                                  !.childEnd = [kind |-> "error", code |-> 0],
                                  !.exitCode = 1]
  /\ UNCHANGED << fsVars, procVars, histVars, secretVars, credVars, regVars >>

\* the credentials file "claude auth login" leaves when it succeeds
FreshCredFile ==
  [kind |-> "object", oauthAccount |-> NoCred,
   claudeAiOauth |-> CredObject(StringField, StringField, NumberField(MaxTime))]

\* handleLogin lines 6-56: resolve the name, look the profile up, refuse a
\* profile that is not oauth, spawn "claude auth login" with the composed
\* environment, then ask getCredentialStatus. code: the child's exit code;
\* wrote: whether the child left a credentials file
HandleLogin ==
  /\ launched.op = "none"
  /\ \E name \in NameArgs, parent \in ParentEnvs, code \in {0, 1}, wrote \in BOOLEAN,
        now \in Times :
       LET loaded == loadConfig(registryFile)
           c == loaded.value
           d == [profileName |-> resolveProfileName(c, name), passthrough |-> << >>]
           lk == Lookup(c.profiles, d.profileName)
           exits == ~loaded.ok \/ lk.kind = "none" \/ lk.profile.authType # "oauth"
           file == IF wrote THEN FreshCredFile ELSE credFiles[d.profileName]
           result == getCredentialStatus(lk.profile, file, now, Null)
           asked == ~exits /\ code = 0
       IN
       /\ exits => code = 0 /\ ~wrote
       /\ ~asked => now = 0
       /\ Compose("login", << >>, name, c, d, << >>, lk, exits,
                  IF exits \/ code # 0 THEN 1
                  ELSE IF result.authenticated THEN 0 ELSE 1,
                  parent, TRUE, "ok", "ok")
       /\ UNCHANGED regVars
       /\ credFiles' = IF exits THEN credFiles
                       ELSE [credFiles EXCEPT ![d.profileName] = file]
       /\ status' = IF ~asked THEN status
                    ELSE [ op |-> "status", name |-> d.profileName,
                           authType |-> lk.profile.authType,
                           envOverrides |-> lk.profile.envOverrides,
                           file |-> file, now |-> now, asked |-> FALSE, secret |-> Null,
                           fileRead |-> TRUE, result |-> result,
                           raised |-> EscapesTry(file.kind \in {"missing", "unreadable",
                                                                "notJson"}) ]

\* the registries launch / exec start from: "work" of any auth type, with or
\* without envOverrides written into config.json, alone and active, or
\* followed by an active "home"
OverrideChoices ==
  { NoOverrides,
    [NoOverrides EXCEPT !["ANTHROPIC_BASE_URL"] = "https://proxy"],
    [NoOverrides EXCEPT !["ANTHROPIC_API_KEY"] = "sk-ant-override"],
    [NoOverrides EXCEPT !["CLAUDE_CODE_USE_BEDROCK"] = "0"],
    [NoOverrides EXCEPT !["CLAUDE_CONFIG_DIR"] = "/elsewhere"] }

LaunchRegistries ==
  { [version |-> 1, activeProfile |-> "work",
     profiles |-> << LaunchProfile("work", t, ov, 1) >>]
      : t \in AUTH_TYPES, ov \in OverrideChoices }
  \cup
  { [version |-> 1, activeProfile |-> "home",
     profiles |-> << LaunchProfile("work", t, ov, 1),
                     LaunchProfile("home", "oauth", NoOverrides, 2) >>]
      : t \in AUTH_TYPES, ov \in OverrideChoices }

\* set-key stores a secret only for an api-key profile
InitLaunch ==
  /\ InitProcs /\ InitCred /\ InitRun /\ launched = NoLaunch
  /\ platform = "posix"
  /\ tempFiles = [s \in Suffixes |-> NoFile]
  /\ \/ /\ registryFile = NoFile
        /\ multiccDir = FALSE /\ profileDirs = {}
        /\ vault = [n \in SecretNames |-> Null]
        /\ fallbackFiles = [n \in SecretNames |-> Null]
     \/ \E reg \in LaunchRegistries :
          /\ registryFile = [exists |-> TRUE, data |-> Serialize(reg), mode |-> "0600"]
          /\ multiccDir = TRUE /\ profileDirs = Keys(reg.profiles)
          /\ \E v \in {Null, "sk-ant-A"}, f \in {Null, "sk-ant-B"} :
               /\ (v # Null \/ f # Null) => reg.profiles[1].authType = "api-key"
               /\ vault = [n \in SecretNames |-> IF n = "work" THEN v ELSE Null]
               /\ fallbackFiles = [n \in SecretNames |-> IF n = "work" THEN f ELSE Null]
  /\ keyringChecked = FALSE /\ keyringModule = Null /\ importCount = 0
  /\ lastOp = NoOp
  /\ lastMut = [n \in SecretNames |-> NoMut]

NextLaunch == HandleLaunch \/ HandleExec \/ HandleShell \/ HandleLogin

\* launch, exec and shell followed to the end of their child
NextChild ==
  HandleLaunch \/ HandleExec \/ HandleShell \/ ChildClose \/ ChildError
SpecLaunch == InitLaunch /\ [][NextLaunch]_vars
SpecChild == InitLaunch /\ [][NextChild]_vars

\* ====================================================== schema validation
\* a value JSON.parse returns, by its kind (t) and, for a string or a
\* number, its text (s)
Jv(t, s) == [t |-> t, s |-> s]
JAbsent == Jv("undefined", "")
\* typeof of a parsed value: null and an array are "object" too
Typeof(v) == IF v.t \in {"object", "array", "null"} THEN "object" ELSE v.t

\* what profiles[key] may be: null, a string, an array, or an object whose
\* authType, configDir and createdAt are each absent, a string or a number
EntryObject(t, authType, configDir, createdAt) ==
  [t |-> t, authType |-> authType, configDir |-> configDir, createdAt |-> createdAt]
EntryValues ==
  { EntryObject(t, JAbsent, JAbsent, JAbsent) : t \in {"null", "string", "array"} }
  \cup { EntryObject("object", a, Jv("string", "/p/work"), Jv("string", "2024-01-01")) :
           a \in { Jv("string", x) : x \in AUTH_TYPES \cup {"sso"} }
                 \cup {Jv("number", "1"), JAbsent} }
  \cup { EntryObject("object", Jv("string", "oauth"), d, Jv("string", "2024-01-01")) :
           d \in {Jv("number", "1"), JAbsent} }
  \cup { EntryObject("object", Jv("string", "oauth"), Jv("string", "/p/work"), c) :
           c \in {Jv("number", "1"), JAbsent} }
  \cup { EntryObject("object", Jv("string", "sso"), Jv("number", "1"), Jv("number", "1")) }

\* the own keys of the profiles value, in Object.keys order
EntryKeys == << "work", "home", "third", "fourth" >>
EntryLists == UNION { [1..n -> EntryValues] : n \in 0..MaxEntries }

\* obj["profiles"]: absent, null, a string, or an array / object of entries
ProfilesValues ==
  { [t |-> t, entries |-> << >>] : t \in {"undefined", "null", "string"} }
  \cup { [t |-> t, entries |-> es] : t \in {"object", "array"}, es \in EntryLists }

\* the documents validateConfig is given: null, a string, an array, or an
\* object with any version, activeProfile and profiles
ParsedValue(t, version, activeProfile, profiles) ==
  [t |-> t, version |-> version, activeProfile |-> activeProfile, profiles |-> profiles]
ParsedValues ==
  { ParsedValue(t, JAbsent, JAbsent, [t |-> "undefined", entries |-> << >>]) :
      t \in {"null", "string", "array"} }
  \cup { ParsedValue("object", v, a, ps) :
           v \in {Jv("number", "1"), Jv("number", "2"), Jv("string", "1"), JAbsent},
           a \in {Jv("string", "work"), Jv("string", "ghost"), Jv("number", "1"), JAbsent},
           ps \in ProfilesValues }

\* validateConfig lines 231-246: the loop over Object.keys(profiles), from
\* entry i on
RECURSIVE EntriesValid(_, _)
EntriesValid(entries, i) ==
  IF i > Len(entries) THEN TRUE
  ELSE LET p == entries[i] IN
       IF Typeof(p) # "object" \/ p.t = "null" THEN FALSE
       ELSE IF Typeof(p.authType) # "string" \/ p.authType.s \notin AUTH_TYPES THEN FALSE
       ELSE IF Typeof(p.configDir) # "string" THEN FALSE
       ELSE IF Typeof(p.createdAt) # "string" THEN FALSE
       ELSE EntriesValid(entries, i + 1)

\* validateConfig lines 218-250 on a parsed value
validateConfigReferential(parsed) ==
  /\ Typeof(parsed) = "object" /\ parsed.t # "null"
  /\ parsed.version = Jv("number", "1")
  /\ Typeof(parsed.activeProfile) = "string"
  /\ Typeof(parsed.profiles) = "object" /\ parsed.profiles.t # "null"
  /\ EntriesValid(parsed.profiles.entries, 1)
  /\ \E i \in 1..Len(parsed.profiles.entries) : EntryKeys[i] = parsed.activeProfile.s
validateConfigValue(parsed) ==
  IF Typeof(parsed) # "object" \/ parsed.t = "null" THEN FALSE
  ELSE IF parsed.version # Jv("number", "1") THEN FALSE
  ELSE IF Typeof(parsed.activeProfile) # "string" THEN FALSE
  ELSE IF Typeof(parsed.profiles) # "object" \/ parsed.profiles.t = "null" THEN FALSE
  ELSE EntriesValid(parsed.profiles.entries, 1)

\* loadConfig line 272: validateConfig(parsed) on what JSON.parse returned
ValidateConfig ==
  /\ checked = NoCheck
  /\ \E v \in ParsedValues :
       checked' = [op |-> "validate", value |-> v, accepted |-> validateConfigValue(v)]
  /\ UNCHANGED << fsVars, procVars, histVars, secretVars, launched, credVars, lastCmd, calls, overlapped >>

\* well-formed registries: no, one or two profiles of any auth type, with
\* or without a description, an apiKeyStorage and envOverrides, and an
\* activeProfile that is a key or not
RoundTripProfiles(name) ==
  { [NewProfile(name, t, getProfileDir(name), desc, 1)
       EXCEPT !.apiKeyStorage = st, !.envOverrides = ov] :
      t \in AUTH_TYPES, desc \in {Undefined, "personal"}, st \in {Undefined, "keyring"},
      ov \in {NoOverrides,
              [NoOverrides EXCEPT !["ANTHROPIC_BASE_URL"] = "https://proxy",
                                  !["AWS_PROFILE"] = ""]} }
RoundTripRegistries ==
  { [version |-> 1, activeProfile |-> a, profiles |-> ps] :
      a \in {"default", "work", "home"},
      ps \in {<< >>}
             \cup { << w >> : w \in RoundTripProfiles("work") }
             \cup { << h, w >> : h \in RoundTripProfiles("home"),
                                  w \in RoundTripProfiles("work") } }

\* saveConfig line 287 and loadConfig lines 257-277 on a file holding that
\* content, then saveConfig's line 287 on the loaded registry
RoundTrip ==
  /\ checked = NoCheck
  /\ \E R \in RoundTripRegistries :
       LET content == Serialize(R)
           loaded == loadConfig([exists |-> TRUE, data |-> content, mode |-> "0600"])
       IN checked' = [op |-> "roundtrip", value |-> R, content |-> content,
                      ok |-> loaded.ok, loaded |-> loaded.value,
                      again |-> Serialize(loaded.value)]
  /\ UNCHANGED << fsVars, procVars, histVars, secretVars, launched, credVars, lastCmd, calls, overlapped >>

\* what a secret backend holds under a name: nothing when it has no entry
StoredUnder(store, name) == IF name \in DOMAIN store THEN store[name] ELSE Null

\* getCredentialStatus(profile) of status and buildProfileEnv(profile, name) of
\* launch for one profile as create wrote it, against the same secret store:
\* status asks for the last segment of configDir, launch for the registry key
StatusAndLaunch ==
  /\ checked = NoCheck
  /\ \E name \in SecretNames, t \in {"api-key", "oauth"}, ov \in OverrideChoices,
        kr \in BOOLEAN, vOut \in {"ok", "throw"}, fOut \in {"ok", "throw"},
        v \in {Null, "sk-ant-A"}, f \in {Null, "", "sk-ant-B"}, parent \in ParentEnvs :
       LET profile == LaunchProfile(name, t, ov, 1)
           vaultNow == [n \in SecretNames |-> IF n = name THEN v ELSE Null]
           filesNow == [n \in SecretNames |-> IF n = name THEN f ELSE Null]
           secretName == LastSegment(profile.configDir)
           asked == retrieveSecret(kr, vOut, fOut, StoredUnder(vaultNow, secretName),
                                   StoredUnder(filesNow, secretName)).result
           secret == retrieveSecret(kr, vOut, fOut, StoredUnder(vaultNow, name),
                                    StoredUnder(filesNow, name)).result
           profileEnv == buildProfileEnv([kind |-> "own", profile |-> profile], secret)
       IN checked' = [op |-> "statusAndLaunch", name |-> name, authType |-> t,
                      envOverrides |-> ov, vault |-> v, file |-> f,
                      secretName |-> secretName,
                      status |-> getCredentialStatus(profile, MissingFile, 0, asked),
                      childEnv |-> ChildEnv(MergeEnv(parent, profileEnv))]
  /\ UNCHANGED << fsVars, procVars, histVars, secretVars, launched, credVars, lastCmd, calls, overlapped >>

NextCheck == ValidateConfig \/ RoundTrip \/ StatusAndLaunch
SpecCheck == Init /\ [][NextCheck]_vars

\* ====================================================== registry commands
\* each command of profile.ts and set-key.ts run from its start to its exit
\* with no other multicc process running

\* the names typed on the command line: the profile names and one that
\* NAME_PATTERN rejects
BadName == "my profile"
TypedNames == ProfileNames \cup {BadName}
\* validateProfileName lines 19-30: the error, or null
validateProfileName(name) ==
  IF name = "" THEN "empty"
  ELSE IF name = BadName THEN "pattern"
  ELSE Null

\* isValidAuthType lines 32-34
isValidAuthType(value) == value \in AUTH_TYPES

\* validateKeyFormat lines 61-63 on the keys typed: "short" has neither
\* prefix nor more than 20 characters
validateKeyFormat(key) == key \in Secrets

\* saveConfig lines 280-296 run undisturbed: config.json holds the content
SavedFile(c) ==
  [exists |-> TRUE, data |-> Serialize(c),
   mode |-> IF platform = "win32" THEN "default" ELSE "0600"]

\* delete config.profiles[name]
RemoveProfile(profiles, name) == SelectSeq(profiles, LAMBDA q : q.name # name)

\* handleDelete lines 203-204: profileCount <= 1
NoProfileLeft(profiles) == Len(profiles) <= 0
SoleProfile(profiles) == Len(profiles) <= 1

\* Object.keys(config.profiles)[0]: undefined when no key is left
LastKey(profiles) == IF Len(profiles) = 0 THEN Undefined ELSE profiles[Len(profiles)].name
FirstKey(profiles) == IF Len(profiles) = 0 THEN Undefined ELSE profiles[1].name

\* the end of a command: what it leaves in the registry file, the profile
\* directories, the two secret backends and the credentials files
Finish(op, name, arg, error, save, c, dirs, v, f, creds) ==
  /\ clock < MaxCmds
  /\ clock' = clock + 1
  /\ lastCmd' = [op |-> op, name |-> name, arg |-> arg, error |-> error,
                 message |-> IF error = "load" THEN loadConfigError(registryFile)
                             ELSE NoError,
                 exit |-> IF error = "none" THEN 0 ELSE 1]
  /\ IF save
       THEN /\ registryFile' = SavedFile(c)
            /\ multiccDir' = TRUE
       ELSE UNCHANGED << registryFile, multiccDir >>
  /\ profileDirs' = dirs
  /\ vault' = v
  /\ fallbackFiles' = f
  /\ credFiles' = creds
  /\ UNCHANGED << platform, tempFiles, pc, cmd, config, tempPath, fd, outcome, histVars,
                  keyringChecked, keyringModule, importCount, lastOp, lastMut,
                  launched, status, checked, calls, overlapped >>

\* process.exit(1), or the throw of loadConfig caught by index.ts lines 8-11
Fails(op, name, arg, error) ==
  Finish(op, name, arg, error, FALSE, defaultConfig, profileDirs, vault, fallbackFiles,
         credFiles)

\* handleCreate lines 67-128
HandleCreate ==
  \E name \in TypedNames, authType \in {"oauth", "api-key", "sso"} :
    LET ld == loadConfig(registryFile)
        c == ld.value
        profiles == SetProfile(c.profiles,
                      NewProfile(name, authType, getProfileDir(name), Undefined, clock + 1))
        isFirstProfile == Len(profiles) = 1
    IN
    /\ authType = "sso" => name = "work"
    /\ name \notin {"work", "home"} => authType = "oauth"
    /\ IF validateProfileName(name) # Null THEN Fails("create", name, authType, "name")
       ELSE IF ~ld.ok THEN Fails("create", name, authType, "load")
       ELSE IF Truthy(c.profiles, name) THEN Fails("create", name, authType, "exists")
       ELSE IF ~isValidAuthType(authType) THEN Fails("create", name, authType, "authType")
       ELSE Finish("create", name, authType, "none", TRUE,
                   [c EXCEPT !.profiles = profiles,
                             !.activeProfile = IF isFirstProfile THEN name ELSE @],
                   profileDirs \cup {name}, vault, fallbackFiles, credFiles)

\* handleSwitch lines 182-193
HandleSwitch ==
  \E name \in ProfileNames :
    LET ld == loadConfig(registryFile)
        c == ld.value
    IN
    IF ~ld.ok THEN Fails("use", name, "", "load")
    ELSE IF ~Truthy(c.profiles, name) THEN Fails("use", name, "", "notFound")
    ELSE Finish("use", name, "", "none", TRUE, [c EXCEPT !.activeProfile = name],
                profileDirs, vault, fallbackFiles, credFiles)

\* handleDelete lines 195-228: rmSync takes the profile directory with the
\* credentials file and the fallback secret file in it
HandleDelete ==
  \E name \in ProfileNames :
    LET ld == loadConfig(registryFile)
        c == ld.value
        lk == Lookup(c.profiles, name)
        remaining == RemoveProfile(c.profiles, name)
        dir == LastSegment(lk.profile.configDir)
    IN
    IF ~ld.ok THEN Fails("delete", name, "", "load")
    ELSE IF ~Truthy(c.profiles, name) THEN Fails("delete", name, "", "notFound")
    ELSE IF SoleProfile(c.profiles) THEN Fails("delete", name, "", "sole")
    ELSE Finish("delete", name, "", "none", TRUE,
                [c EXCEPT !.profiles = remaining,
                          !.activeProfile = IF @ = name THEN FirstKey(remaining) ELSE @],
                profileDirs \ {dir}, vault,
                [n \in SecretNames |-> IF n = dir THEN Null ELSE fallbackFiles[n]],
                [n \in DirNames |-> IF n = dir THEN MissingFile ELSE credFiles[n]])

\* the --from directory of import: missing, without an importable file, or
\* holding a .credentials.json
ImportSources == {"missing", "empty", "creds"}
ImportedCredFile ==
  [kind |-> "object", oauthAccount |-> NoCred,
   claudeAiOauth |-> CredObject(StringField, StringField, NumberField(0))]

\* handleImport lines 232-308
HandleImport ==
  \E name \in TypedNames, source \in ImportSources, force \in {"force", "noforce"} :
    LET ld == loadConfig(registryFile)
        c == ld.value
        hadNoProfiles == Len(c.profiles) = 0
        profiles == SetProfile(c.profiles,
                      NewProfile(name, "oauth", getProfileDir(name), "Imported", clock + 1))
    IN
    /\ source # "creds" => name = "work" /\ force = "noforce"
    /\ name = BadName => force = "noforce"
    /\ IF validateProfileName(name) # Null THEN Fails("import", name, force, "name")
       ELSE IF source = "missing" THEN Fails("import", name, force, "source")
       ELSE IF source = "empty" THEN Fails("import", name, force, "nofiles")
       ELSE IF ~ld.ok THEN Fails("import", name, force, "load")
       ELSE IF Truthy(c.profiles, name) /\ force # "force"
         THEN Fails("import", name, force, "exists")
       ELSE Finish("import", name, force, "none", TRUE,
                   [c EXCEPT !.profiles = profiles,
                             !.activeProfile = IF hadNoProfiles THEN name ELSE @],
                   profileDirs \cup {name}, vault, fallbackFiles,
                   [n \in DirNames |-> IF n = name THEN ImportedCredFile ELSE credFiles[n]])

\* the key set-key reads: none, the empty string, an ill-formatted one, a key
TypedKeys == {Null, "", "short", "sk-ant-A"}

\* handleSetKey lines 65-115. kr: the keyring module loads; fOut: where
\* writeFallbackFile throws, if it does
HandleSetKey ==
  \E name \in {Undefined} \cup ProfileNames, key \in TypedKeys, kr \in BOOLEAN,
     fOut \in {"ok", "throwBefore"} :
    LET ld == loadConfig(registryFile)
        c == ld.value
        profileName == resolveProfileName(c, name)
        lk == Lookup(c.profiles, profileName)
        r == storeSecret(kr, "ok", fOut, key, vault[profileName], fallbackFiles[profileName])
        profile == [lk.profile EXCEPT !.apiKeyStorage = "keyring"]
    IN
    /\ kr => fOut = "ok"
    /\ (name # "work" \/ key # "sk-ant-A") => kr /\ fOut = "ok"
    /\ name # "work" => key = "sk-ant-A"
    /\ IF ~ld.ok THEN Fails("set-key", name, key, "load")
       ELSE IF lk.kind = "none" THEN Fails("set-key", name, key, "notFound")
       ELSE IF lk.profile.authType # "api-key" THEN Fails("set-key", name, key, "notApiKey")
       ELSE IF key = Null \/ key = "" THEN Fails("set-key", name, key, "noKey")
       ELSE IF ~validateKeyFormat(key) THEN Fails("set-key", name, key, "keyFormat")
       ELSE Finish("set-key", name, key, "none", TRUE,
                   [c EXCEPT !.profiles = SetProfile(c.profiles, profile)],
                   profileDirs,
                   [vault EXCEPT ![profileName] = r.vault],
                   [fallbackFiles EXCEPT ![profileName] = r.file], credFiles)

\* handleList lines 130-153 and handleShow lines 155-180: load and print
HandleList ==
  LET ld == loadConfig(registryFile) IN
  IF ~ld.ok THEN Fails("list", Undefined, "", "load")
  ELSE Finish("list", Undefined, "", "none", FALSE, ld.value, profileDirs, vault,
              fallbackFiles, credFiles)

HandleShow ==
  \E name \in {Undefined, "work", "toString"} :
    LET ld == loadConfig(registryFile)
        c == ld.value
    IN
    IF ~ld.ok THEN Fails("show", name, "", "load")
    ELSE IF ~Truthy(c.profiles, resolveProfileName(c, name))
      THEN Fails("show", name, "", "notFound")
    ELSE Finish("show", name, "", "none", FALSE, c, profileDirs, vault, fallbackFiles,
                credFiles)

\* the files the commands may find: none, registries that create wrote
\* earlier, a document cut short, a document of another schema version
StartRegistries ==
  { [version |-> 1, activeProfile |-> "work",
     profiles |-> << LaunchProfile("work", "api-key", NoOverrides, 0) >>],
    [version |-> 1, activeProfile |-> "home",
     profiles |-> << LaunchProfile("home", "oauth", NoOverrides, 0),
                     LaunchProfile("work", "api-key", NoOverrides, 0) >>] }
CutShort(data) == SubSeq(data, 1, 3)
OtherVersion(c) == [c EXCEPT !.version = 2]

InitRegistry ==
  /\ InitProcs /\ InitSecretIdle /\ InitCred /\ InitRun /\ launched = NoLaunch
  /\ platform \in {"posix", "win32"}
  /\ tempFiles = [s \in Suffixes |-> NoFile]
  /\ \/ /\ registryFile = NoFile
        /\ multiccDir = FALSE /\ profileDirs = {}
     \/ \E reg \in StartRegistries, damage \in {"none", "cut", "version"} :
          /\ damage # "none" => Len(reg.profiles) = 2
          /\ registryFile =
               [exists |-> TRUE, mode |-> IF platform = "win32" THEN "default" ELSE "0600",
                data |-> CASE damage = "none" -> Serialize(reg)
                           [] damage = "cut" -> CutShort(Serialize(reg))
                           [] OTHER -> Serialize(OtherVersion(reg))]
          /\ multiccDir = TRUE /\ profileDirs = Keys(reg.profiles)

NextRegistry ==
  \/ HandleCreate \/ HandleSwitch \/ HandleDelete \/ HandleImport \/ HandleSetKey
  \/ HandleList \/ HandleShow
SpecRegistry == InitRegistry /\ [][NextRegistry]_vars

\* ------------------------------------------------ delete, step by step
\* handleDelete lines 209-219: the directory is only read here; rmSync comes
\* after saveConfig
RemovedBeforeSave(dirs, dir) == dirs \ {dir}
KeptUntilSaved(dirs, dir) == dirs

\* handleDelete up to saveConfig: loadConfig, the two checks, take the
\* profile out, reassign activeProfile
DeleteBegin(p) ==
  \E name \in ProfileNames :
    LET ld == loadConfig(registryFile)
        c == ld.value
        lk == Lookup(c.profiles, name)
        remaining == RemoveProfile(c.profiles, name)
        dir == LastSegment(lk.profile.configDir)
        refused == ~ld.ok \/ ~Truthy(c.profiles, name) \/ SoleProfile(c.profiles)
    IN
    /\ pc[p] \in Quiescent /\ clock < MaxCmds
    /\ clock' = clock + 1
    /\ cmd' = [cmd EXCEPT ![p] = [op |-> "delete", name |-> name, authType |-> "",
                                  at |-> clock + 1, dir |-> dir]]
    /\ tempPath' = [tempPath EXCEPT ![p] = 0]
    /\ saved' = [saved EXCEPT ![p] = << >>]
    /\ outcome' = [outcome EXCEPT ![p] = IF ~ld.ok THEN "throw"
                                         ELSE IF refused THEN "exit1" ELSE "running"]
    /\ pc' = [pc EXCEPT ![p] = IF refused THEN "idle" ELSE "saveMkdir"]
    /\ config' = [config EXCEPT ![p] =
          IF refused THEN defaultConfig
          ELSE [c EXCEPT !.profiles = remaining,
                         !.activeProfile = IF @ = name THEN FirstKey(remaining) ELSE @]]
    /\ loadedBefore' = [q \in Procs |->
          IF q # p THEN loadedBefore[q] \ {p}
          ELSE IF refused THEN {}
          ELSE { r \in Procs \ {p} : pc[r] \in InFlight }]
    /\ profileDirs' = IF refused THEN profileDirs ELSE KeptUntilSaved(profileDirs, dir)
    /\ overlapped' = (overlapped \/ OthersInFlight(p))
    /\ UNCHANGED << platform, multiccDir, registryFile, tempFiles, fd, lastRename,
                    published, secretVars, launched, credVars, lastCmd, checked, calls >>

\* handleDelete lines 221-227: rmSync(profileDir, { recursive, force }) takes
\* the directory with the credentials file and the fallback secret file; a
\* failure is caught and ignored
DeleteRmdir(p) ==
  LET dir == cmd[p].dir IN
  /\ pc[p] = "rmProfile"
  /\ \E rmOk \in BOOLEAN :
       IF rmOk
       THEN /\ profileDirs' = profileDirs \ {dir}
            /\ fallbackFiles' = [n \in SecretNames |->
                                   IF n = dir THEN Null ELSE fallbackFiles[n]]
            /\ credFiles' = [n \in DirNames |->
                               IF n = dir THEN MissingFile ELSE credFiles[n]]
       ELSE UNCHANGED << profileDirs, fallbackFiles, credFiles >>
  /\ pc' = [pc EXCEPT ![p] = "idle"]
  /\ UNCHANGED << platform, multiccDir, registryFile, tempFiles, cmd, config, tempPath, fd, outcome, clock,
                  histVars, keyringChecked, keyringModule, importCount, vault, lastOp,
                  lastMut, launched, status, regVars >>

\* a registry create wrote, loadable, with two profiles and their directories
InitDirs ==
  /\ InitRegistry /\ platform = "posix"
  /\ registryFile.exists /\ loadConfig(registryFile).ok
  /\ Cardinality(profileDirs) = 2

\* one command alone, or two of them, one after the other or overlapping
DirCmds == Cardinality(Procs)
CreateStarts(p) == clock < DirCmds /\ CreateBegin(p)
SwitchStarts(p) == clock < DirCmds /\ SwitchBegin(p)
DeleteStarts(p) == clock < DirCmds /\ DeleteBegin(p)

StepDirs(p) ==
  \/ CreateStarts(p)
  \/ CreateMkdir(p)
  \/ SwitchStarts(p)
  \/ DeleteStarts(p)
  \/ SaveMkdir(p)
  \/ SaveOpen(p)
  \/ SaveWrite(p)
  \/ SaveChmod(p)
  \/ SaveRename(p)
  \/ DeleteRmdir(p)
  \/ Crash(p)
NextDirs == \E p \in Procs : StepDirs(p)
SpecDirs == InitDirs /\ [][NextDirs]_vars

\* clearKeyringEntries lines 22-41: nothing when the module cannot be
\* imported; otherwise deletePassword for every name, a throw ignored
clearKeyringEntries(profileNames, importOk, thrown, v) ==
  [n \in SecretNames |->
     IF importOk /\ n \in profileNames /\ n \notin thrown THEN Null ELSE v[n]]

\* handlePrune lines 71-96: past the confirmation with --force, or with a
\* prompt that could be shown and was answered yes
ProceedsUnasked(force, interactive, answer) == TRUE
Proceeds(force, interactive, answer) == force \/ (interactive /\ answer = "yes")

\* what a prune leaves behind for the caller: its options, what it listed,
\* how it ended
PruneRan(force, interactive, answer, profileNames, error, exit) ==
  [op |-> "prune", name |-> Undefined, arg |-> IF force THEN "force" ELSE "",
   error |-> error, message |-> NoError, exit |-> exit,
   force |-> force, interactive |-> interactive, answer |-> answer,
   profiles |-> profileNames]

\* a prune that ends before it removes anything
PruneKeeps(ran) ==
  /\ lastCmd' = ran
  /\ UNCHANGED << fsVars, vault, fallbackFiles, credFiles >>

\* handlePrune lines 43-122. interactive: @inquirer/prompts loads and stdin
\* is a TTY; answer: what the confirmation returns (yes, no, ExitPromptError,
\* another error); importOk, thrown: the keyring import and the names
\* deletePassword throws for; rmOk: rmSync does not throw
HandlePrune ==
  \E force \in BOOLEAN, interactive \in BOOLEAN,
     answer \in {"none", "yes", "no", "abort", "fail"},
     importOk \in BOOLEAN, thrown \in SUBSET {"work"}, rmOk \in BOOLEAN :
    LET ld == loadConfig(registryFile)
        profileNames == IF ld.ok THEN Keys(ld.value.profiles) ELSE {}
        asked == multiccDir /\ ~force /\ interactive
    IN
    /\ clock < MaxCmds
    /\ clock' = clock + 1
    /\ asked <=> answer # "none"
    /\ (~importOk \/ profileNames = {}) => thrown = {}
    /\ IF ~multiccDir
         THEN PruneKeeps(PruneRan(force, interactive, answer, {}, "nothing", 0))
       ELSE IF ~Proceeds(force, interactive, answer)
         THEN PruneKeeps(PruneRan(force, interactive, answer, profileNames,
                CASE ~interactive -> "refused"
                  [] answer = "no" -> "declined"
                  [] answer = "abort" -> "aborted"
                  [] OTHER -> "throw",
                IF interactive /\ answer \in {"no", "abort"} THEN 0 ELSE 1))
       ELSE /\ lastCmd' = PruneRan(force, interactive, answer, profileNames,
                                   IF rmOk THEN "none" ELSE "rm", IF rmOk THEN 0 ELSE 1)
            /\ vault' = clearKeyringEntries(profileNames, importOk, thrown, vault)
            /\ IF rmOk
                 THEN /\ multiccDir' = FALSE
                      /\ registryFile' = NoFile
                      /\ profileDirs' = {}
                      /\ tempFiles' = [s \in Suffixes |-> NoFile]
                      /\ fallbackFiles' = [n \in SecretNames |-> Null]
                      /\ credFiles' = [n \in DirNames |-> MissingFile]
                      /\ UNCHANGED platform
                 ELSE UNCHANGED << fsVars, fallbackFiles, credFiles >>
    /\ UNCHANGED << pc, cmd, config, tempPath, fd, outcome, histVars,
                    keyringChecked, keyringModule, importCount, lastOp, lastMut,
                    launched, status, checked, calls, overlapped >>

\* prune among the commands that make profiles and secrets
NextPrune == HandlePrune \/ HandleCreate \/ HandleSetKey \/ HandleDelete
SpecPrune == InitRegistry /\ [][NextPrune]_vars

\* what process.env["MULTICC_PROFILE"] holds: not set, the empty string the
\* bash/zsh integration exports (shell-init.ts line 37), or a name
ProfileOverrides == {Unset, "", "work", "home", "toString"}

\* profileName ?? config.activeProfile: only undefined falls back
NullishName(profileName, activeProfile) ==
  IF profileName = Unset THEN activeProfile ELSE profileName

\* handleResolveConfigDir lines 3-21. A member inherited from Object.prototype
\* is truthy and has no configDir: process.stdout.write(undefined) throws and
\* index.ts exits 1
HandleResolveConfigDir ==
  \E profileName \in ProfileOverrides :
    LET ld == loadConfig(registryFile)
        c == ld.value
        resolved == NullishName(profileName, c.activeProfile)
        lk == Lookup(c.profiles, resolved)
        error == IF ~ld.ok THEN "load"
                 ELSE IF lk.kind = "none" THEN "notFound"
                 ELSE IF lk.kind = "inherited" THEN "write"
                 ELSE "none"
    IN
    /\ clock < MaxCmds
    /\ clock' = clock + 1
    /\ lastCmd' = [op |-> "_resolve-config-dir", name |-> profileName, arg |-> "",
                   error |-> error, message |-> NoError,
                   exit |-> IF error = "none" THEN 0 ELSE 1,
                   output |-> IF error = "none" THEN PathString(lk.profile.configDir)
                              ELSE ""]
    /\ UNCHANGED << fsVars, pc, cmd, config, tempPath, fd, outcome, histVars,
                    secretVars, launched, credVars, checked, calls, overlapped >>

\* the resolver between commands that change the registry
NextResolve == HandleResolveConfigDir \/ HandleSwitch \/ HandleDelete
SpecResolve == InitRegistry /\ [][NextResolve]_vars

\* ================================================================ claims
\* a step of slot p's saveConfig other than a completed renameSync: its mkdir,
\* its open, its write, its chmod, or a crash before the rename
SaveStepBeforeRename(p) ==
  /\ pc[p] \in SavePre
  /\ pc'[p] # pc[p]
  /\ ~(pc[p] = "saveRename" /\ outcome'[p] = "success")

\* C1: with invocations run one at a time, every step of saveConfig before
\* its rename, and a crash at any of them, leaves config.json byte-identical;
\* and in every reachable state config.json is absent or holds exactly the
\* complete content given to the save that renamed last.
C1_CrashAtomic ==
  /\ [][\A p \in Procs : SaveStepBeforeRename(p) => registryFile' = registryFile]_vars
  /\ [](registryFile.exists =>
          /\ registryFile.data = published
          /\ Parses(registryFile.data)
          /\ Serialize(Parsed(registryFile.data)) = registryFile.data)

\* C1 witness: a save crashed after its temp file was completely written
\* while config.json holds the different content of an earlier save.
C1_Witness ==
  \E p \in Procs :
    /\ outcome[p] = "crashed" /\ tempPath[p] # 0
    /\ tempFiles[tempPath[p]].exists
    /\ Len(tempFiles[tempPath[p]].data) = 6
    /\ registryFile.exists
    /\ registryFile.data # tempFiles[tempPath[p]].data

\* C2 (as claimed): at every moment of any interleaving of concurrent saves,
\* config.json is absent or is the complete content given to the save whose
\* rename ran last, so that a loadConfig never sees a partial file.
C2_LoadSeesWholeSave ==
  registryFile.exists =>
    /\ Parses(registryFile.data)
    /\ registryFile.data = published

\* two commands raced: each loaded the registry before the other's rename,
\* and both have ended without being killed
Raced(p, q) ==
  /\ p # q /\ q \in loadedBefore[p]
  /\ pc[p] = "idle" /\ pc[q] = "idle"
  /\ outcome[p] # "crashed" /\ outcome[q] # "crashed"

\* C3 (as claimed): when two commands both load before either saves, both end
\* reporting success, config.json is exactly the content saved by the command
\* whose rename ran last, and the profile the other command created is not in it.
C3_LastWriterWins ==
  \A p, q \in Procs :
    Raced(p, q) =>
      /\ outcome[p] = "success" /\ outcome[q] = "success"
      /\ registryFile.exists /\ registryFile.data = published
      /\ \A w, l \in {p, q} :
           (w = lastRename /\ l # w /\ cmd[l].op = "create"
              /\ ~(cmd[w].op = "create" /\ cmd[w].name = cmd[l].name))
           => cmd[l].name \notin Keys(Parsed(registryFile.data).profiles)

\* the parent environments that differ from parent in the auth variables only
AltParents(parent) ==
  { [k \in EnvVars |-> IF k \in S THEN "from-other-shell"
                       ELSE IF k \in AuthVarSet THEN Unset ELSE parent[k]]
      : S \in SUBSET AuthVarSet }

\* C4: in the environment given to the spawned child, each of the seven auth
\* variables is absent or holds a value derived from the profile (its
\* envOverrides entry, its retrieved secret, or the "1" of its auth type), and
\* every parent environment that differs only in these variables gives the
\* child the same values for them.
C4_NoParentLeak ==
  launched.spawned =>
    /\ \A alt \in AltParents(launched.parentEnv) :
         LET child == ChildEnv(MergeEnv(alt, launched.profileEnv))
         IN \A k \in AuthVarSet : child[k] = launched.childEnv[k]
    /\ \A k \in AuthVarSet :
         \/ launched.childEnv[k] = Unset
         \/ launched.childEnv[k] = launched.envOverrides[k]
         \/ /\ k = "ANTHROPIC_API_KEY" /\ launched.authType = "api-key"
            /\ launched.childEnv[k] = launched.secret
         \/ /\ launched.childEnv[k] = "1"
            /\ \/ k = "CLAUDE_CODE_USE_BEDROCK" /\ launched.authType = "bedrock"
               \/ k = "CLAUDE_CODE_USE_VERTEX" /\ launched.authType = "vertex"
               \/ k = "CLAUDE_CODE_USE_FOUNDRY" /\ launched.authType = "foundry"

\* C4 witness: a child spawned from a parent that had every auth variable set,
\* for an api-key profile whose secret was retrieved.
C4_Witness ==
  /\ launched.spawned
  /\ \A k \in AuthVarSet : launched.parentEnv[k] = "from-parent"
  /\ launched.authType = "api-key"
  /\ launched.childEnv["ANTHROPIC_API_KEY"] = "sk-ant-A"
  /\ launched.childEnv["ANTHROPIC_BASE_URL"] = Unset
  /\ launched.childEnv["PATH"] = "/usr/bin"

\* C5 (as claimed): when the leading token of the raw argument list is a key
\* of profiles, launch / exec use it as the profile and what follows it as
\* the passthrough; otherwise they use activeProfile and the whole list.
C5_Disambiguation ==
  launched.op \in {"launch", "exec"} =>
    IF Len(launched.rawArgs) > 0 /\ launched.rawArgs[1] \in launched.keys
      THEN /\ launched.profileName = launched.rawArgs[1]
           /\ launched.selected = Tail(launched.rawArgs)
      ELSE /\ launched.profileName = launched.activeProfile
           /\ launched.selected = launched.rawArgs

\* the running process's last store or delete for the name of the last call
LastMutOfOp == lastMut[lastOp.name]

\* C6 (as claimed): a retrieveSecret(name) that meets no backend fault, in the
\* process whose storeSecret(name, s) was the last store or delete for that
\* name and put s into the vault or into the fallback file, returns s.
C6_StoreThenRetrieve ==
  (/\ lastOp.kind = "retrieve"
   /\ ~lastOp.vFault /\ lastOp.fFault = "none"
   /\ LastMutOfOp.kind = "store"
   /\ (LastMutOfOp.vaultOk \/ LastMutOfOp.fileOk))
  => lastOp.result = LastMutOfOp.secret

\* C7: every deleteSecret reaches the fallback-file deletion, whatever the
\* vault deletion did, and leaves no fallback file unless the unlink itself
\* threw; and after a deleteSecret whose two deletions both succeeded, a
\* retrieveSecret of that name returns absent.
C7_DeleteBothBackends ==
  /\ lastOp.kind = "delete" =>
       /\ lastOp.fileTried
       /\ lastOp.fFault = "none" => fallbackFiles[lastOp.name] = Null
  /\ (/\ lastOp.kind = "retrieve"
      /\ LastMutOfOp.kind = "delete"
      /\ LastMutOfOp.vaultOk /\ LastMutOfOp.fileOk)
     => lastOp.result = Null

\* C7 witness: a retrieveSecret after a deleteSecret that succeeded on both
\* backends while both held a copy.
C7_Witness ==
  /\ lastOp.kind = "retrieve" /\ lastOp.result = Null
  /\ LastMutOfOp.kind = "delete" /\ LastMutOfOp.hadBoth
  /\ LastMutOfOp.vaultOk /\ LastMutOfOp.fileOk

\* C8: retrieveSecret asks the vault exactly when the keyring module is
\* loaded; when that lookup yields it returns the vault's value and does not
\* touch the fallback file; otherwise it goes on to the fallback file and
\* returns its content when the file exists and can be read; it returns
\* absent exactly when neither source yields.
C8_RetrieveOrder ==
  lastOp.kind = "retrieve" =>
    LET v == vault[lastOp.name]
        f == fallbackFiles[lastOp.name]
        vaultYields == lastOp.avail /\ ~lastOp.vFault /\ v # Null
        fileYields == f # Null /\ lastOp.fFault = "none"
    IN
    /\ lastOp.vaultTried = lastOp.avail
    /\ vaultYields => lastOp.result = v /\ ~lastOp.fileTried
    /\ ~vaultYields => lastOp.fileTried /\ (fileYields => lastOp.result = f)
    /\ (lastOp.result = Null) <=> (~vaultYields /\ ~fileYields)

\* C8 witness: the vault lookup threw and the fallback file's content was returned.
C8_Witness ==
  /\ lastOp.kind = "retrieve" /\ lastOp.avail /\ lastOp.vFault
  /\ fallbackFiles[lastOp.name] # Null
  /\ lastOp.result = fallbackFiles[lastOp.name]

\* C9: no secret store call raises to its caller, whatever the vault and the
\* fallback file do; a store that fails on both backends warns and returns.
C9_NeverRaises ==
  /\ ~lastOp.raised
  /\ (/\ lastOp.kind = "store"
      /\ (~lastOp.avail \/ lastOp.vFault)
      /\ lastOp.fFault # "none")
     => lastOp.warned >= 1

\* C9 witness: a store whose vault write threw and whose fallback write threw.
C9_Witness ==
  /\ lastOp.kind = "store" /\ lastOp.avail /\ lastOp.vFault
  /\ lastOp.fFault = "throwBefore"
  /\ ~lastOp.raised /\ lastOp.warned = 2

\* C10: a process imports the keyring module at most once, in its first
\* secret store call; once that import has failed, every later call of the
\* process leaves the vault alone and does not import again.
C10_LoadOnce ==
  /\ [](importCount <= 1)
  /\ [][(~keyringChecked /\ keyringChecked') =>
          (lastOp'.imported /\ importCount' = 1)]_vars
  /\ [][(keyringChecked /\ keyringModule = Null /\ keyringChecked') =>
          /\ importCount' = importCount
          /\ keyringModule' = Null
          /\ ~lastOp'.imported /\ ~lastOp'.avail /\ ~lastOp'.vaultTried
          /\ lastOp'.kind \in {"store", "retrieve", "delete"}
          /\ lastOp'.fileTried]_vars

\* C10 witness: after a failed import, a later store of the same process went
\* to the fallback file without importing.
C10_Witness ==
  /\ keyringChecked /\ keyringModule = Null /\ importCount = 1
  /\ lastOp.kind = "store" /\ ~lastOp.imported /\ lastOp.fileTried

\* a credential object with string tokens and a numeric expiry
WellFormed(c) ==
  /\ c.kind = "object"
  /\ c.accessToken.t = "string" /\ c.refreshToken.t = "string"
  /\ c.expiresAt.t = "number"

OAuthCall == status.op = "status" /\ status.authType = "oauth"

\* C11 (as claimed): for an oauth profile whose credentials file holds a
\* well-formed credential object under claudeAiOauth, the status is
\* authenticated exactly when expiresAt > now, and expired is true exactly
\* when authenticated is false.
C11_ExpiryBoundary ==
  (OAuthCall /\ status.file.kind = "object" /\ WellFormed(status.file.claudeAiOauth))
  => /\ status.result.authenticated <=> (status.file.claudeAiOauth.expiresAt.v > status.now)
     /\ (status.result.expired = "true") <=> ~status.result.authenticated
     /\ status.result.expired \in {"true", "false"}

\* C12: for an oauth profile whose credentials file is missing, unreadable,
\* not JSON, not a JSON object, or holds no well-formed credential object
\* under either key, the status is {authenticated: false, method: oauth}
\* with no expiresAt and no expired field, and the call does not raise.
C12_MalformedIsUnauthenticated ==
  (OAuthCall /\ ~(/\ status.file.kind = "object"
                  /\ (WellFormed(status.file.claudeAiOauth)
                        \/ WellFormed(status.file.oauthAccount))))
  => /\ status.result = CredStatus(FALSE, "oauth", AbsentField, Undefined)
     /\ ~status.raised

\* C12 witness: a credential object whose expiresAt is a string.
C12_Witness ==
  /\ OAuthCall /\ status.file.kind = "object"
  /\ status.file.claudeAiOauth = CredObject(StringField, StringField, StringField)
  /\ status.file.oauthAccount = NoCred
  /\ ~status.result.authenticated

\* C13 (as claimed): whenever claudeAiOauth or oauthAccount holds a
\* well-formed credential object, the resolver obtains credentials (the
\* status carries their expiresAt).
C13_EitherKey ==
  (/\ OAuthCall /\ status.file.kind = "object"
   /\ (WellFormed(status.file.claudeAiOauth) \/ WellFormed(status.file.oauthAccount)))
  => status.result.expiresAt.t = "number"

\* C14 (as claimed): for an api-key profile, an envOverrides entry for
\* ANTHROPIC_API_KEY gives authenticated / env-var without a secret store
\* call; without the entry the method is api-key and the status is
\* authenticated exactly when retrieveSecret found a secret; no expiry.
C14_ApiKeyStatus ==
  (status.op = "status" /\ status.authType = "api-key") =>
    /\ status.envOverrides["ANTHROPIC_API_KEY"] # Unset =>
         /\ status.result.authenticated /\ status.result.method = "env-var"
         /\ ~status.asked
    /\ status.envOverrides["ANTHROPIC_API_KEY"] = Unset =>
         /\ status.result.method = "api-key" /\ status.asked
         /\ status.result.authenticated <=> (status.secret # Null)
    /\ status.result.expiresAt = AbsentField /\ status.result.expired = Undefined

\* C15: for bedrock, vertex and foundry the status is authenticated exactly
\* when one of the provider's envOverrides keys is present, whatever the
\* secret store and the credentials file hold; neither is consulted and no
\* expiry is reported.
C15_ProviderStatus ==
  (status.op = "status" /\ status.authType \in {"bedrock", "vertex", "foundry"}) =>
    LET ov == status.envOverrides
        expected ==
          CASE status.authType = "bedrock" ->
                 ov["AWS_ACCESS_KEY_ID"] # Unset \/ ov["AWS_PROFILE"] # Unset
            [] status.authType = "vertex" ->
                 ov["GOOGLE_APPLICATION_CREDENTIALS"] # Unset \/ ov["CLOUD_ML_REGION"] # Unset
            [] status.authType = "foundry" -> ov["FOUNDRY_API_KEY"] # Unset
    IN
    /\ status.result = CredStatus(expected, status.authType, AbsentField, Undefined)
    /\ ~status.asked /\ ~status.fileRead /\ ~status.raised
    /\ lastOp = NoOp /\ ~keyringChecked

\* C15 witness: a bedrock profile whose only override is an empty AWS_PROFILE
\* is authenticated, with a secret and a credentials file under its name.
C15_Witness ==
  /\ status.op = "status" /\ status.authType = "bedrock"
  /\ status.envOverrides = SetOverrides({"AWS_PROFILE"}, "")
  /\ status.result.authenticated
  /\ vault["work"] # Null /\ status.file.kind = "object"

\* the launched command reached its spawn with a profile of the registry
SpawnedOwn == launched.spawned /\ launched.found = "own"

\* C16: for a profile without envOverrides the composed mapping holds, among
\* the auth-mode variables, only the one of the profile's auth type:
\* ANTHROPIC_API_KEY is the retrieved secret for api-key when one was found,
\* the profile's own CLAUDE_CODE_USE_* flag is "1" for bedrock, vertex and
\* foundry, and every other auth-mode variable is set to undefined, so at
\* most one mode is selected
C16_OnlyOwnAuthVariable ==
  (SpawnedOwn /\ launched.envOverrides = NoOverrides)
  => LET own == CASE launched.authType = "api-key" -> "ANTHROPIC_API_KEY"
                  [] launched.authType = "bedrock" -> "CLAUDE_CODE_USE_BEDROCK"
                  [] launched.authType = "vertex" -> "CLAUDE_CODE_USE_VERTEX"
                  [] launched.authType = "foundry" -> "CLAUDE_CODE_USE_FOUNDRY"
                  [] OTHER -> "none"
         selected == { k \in AuthVarSet : launched.profileEnv[k] # Undefined }
     IN /\ selected \subseteq {own}
        /\ Cardinality(selected) <= 1
        /\ launched.authType \in {"bedrock", "vertex", "foundry"}
             => launched.profileEnv[own] = "1"
        /\ launched.authType = "api-key"
             => launched.profileEnv[own] =
                  (IF launched.secret = Null THEN Undefined ELSE launched.secret)
        /\ \A k \in selected : launched.childEnv[k] = launched.profileEnv[k]

C16_Witness ==
  /\ SpawnedOwn /\ launched.envOverrides = NoOverrides
  /\ launched.authType = "api-key" /\ launched.secret = "sk-ant-A"
  /\ launched.profileEnv["ANTHROPIC_API_KEY"] = "sk-ant-A"
  /\ launched.parentEnv["CLAUDE_CODE_USE_BEDROCK"] # Unset

\* C17: every entry of the profile's envOverrides is the value of its key in
\* the composed mapping, also for a key the composer derived itself
C17_OverridesWin ==
  launched.spawned
  => \A k \in EnvVars :
       launched.envOverrides[k] # Unset => launched.profileEnv[k] = launched.envOverrides[k]

C17_Witness ==
  /\ SpawnedOwn /\ launched.authType = "api-key" /\ launched.secret = "sk-ant-A"
  /\ launched.envOverrides["ANTHROPIC_API_KEY"] = "sk-ant-override"
  /\ launched.profileEnv["ANTHROPIC_API_KEY"] = "sk-ant-override"

\* C18 as stated: the child of launch, exec, shell or login has
\* CLAUDE_CONFIG_DIR equal to the profile's configDir, whatever the parent
\* environment and the profile's envOverrides hold
C18_ConfigDirIsolated ==
  SpawnedOwn => launched.childEnv["CLAUDE_CONFIG_DIR"] = launched.configDir

\* C18 amended: the child's CLAUDE_CONFIG_DIR is the profile's envOverrides
\* entry for it when the profile has one and the profile's configDir
\* otherwise, whatever the parent environment holds
C18_ConfigDirOrOverride ==
  SpawnedOwn
  => launched.childEnv["CLAUDE_CONFIG_DIR"] =
       (IF launched.envOverrides["CLAUDE_CONFIG_DIR"] # Unset
          THEN launched.envOverrides["CLAUDE_CONFIG_DIR"]
          ELSE launched.configDir)

C18_Witness ==
  /\ SpawnedOwn /\ launched.op = "shell"
  /\ launched.parentEnv["CLAUDE_CONFIG_DIR"] = "from-parent"
  /\ launched.envOverrides["CLAUDE_CONFIG_DIR"] = Unset
  /\ launched.childEnv["CLAUDE_CONFIG_DIR"] = launched.configDir

\* C19: a parent variable the composed mapping does not mention reaches the
\* child unchanged, and a key the mapping sets to undefined is absent from
\* the child's environment
C19_MergedOverParent ==
  launched.spawned
  => \A k \in EnvVars :
       /\ launched.profileEnv[k] = Unset => launched.childEnv[k] = launched.parentEnv[k]
       /\ launched.profileEnv[k] = Undefined => launched.childEnv[k] = Unset

C19_Witness ==
  /\ SpawnedOwn /\ launched.op = "exec"
  /\ launched.parentEnv["ANTHROPIC_API_KEY"] = "from-parent"
  /\ launched.profileEnv["ANTHROPIC_API_KEY"] = Undefined
  /\ launched.childEnv["ANTHROPIC_API_KEY"] = Unset
  /\ launched.profileEnv["PATH"] = Unset /\ launched.childEnv["PATH"] = "/usr/bin"

\* C20: a command that loads the registry while no registry file exists gets
\* the default registry {version 1, activeProfile "default", no profiles}
\* without a throw and changes nothing in the file system by loading, and the
\* registry file comes into existence only by the rename that ends a save
C20_LoadDefaultCreatesNothing ==
  [][ /\ (clock' # clock /\ ~registryFile.exists)
         => /\ fsVars' = fsVars
            /\ \A p \in Procs :
                 cmd'[p].at = clock'
                 => /\ outcome'[p] # "throw"
                    /\ pc'[p] = "mkdirProfile"
                         => config'[p] = [version |-> 1, activeProfile |-> "default",
                                          profiles |-> << >>]
      /\ (~registryFile.exists /\ registryFile'.exists)
         => \E p \in Procs : pc[p] = "saveRename" /\ outcome'[p] = "success"
    ]_vars

C20_Witness ==
  \E p \in Procs :
    /\ pc[p] = "mkdirProfile" /\ cmd[p].op = "create"
    /\ ~registryFile.exists /\ ~multiccDir
    /\ config[p].activeProfile = "default" /\ config[p].profiles = << >>

\* an object in the language's sense: a JSON object or a JSON array
IsObject(v) == v.t \in {"object", "array"}

\* C22: validateConfig accepts a parsed value exactly when it is an object,
\* its version is the number 1, its activeProfile is a string, its profiles
\* is an object, and every entry of profiles is an object with an authType
\* among oauth, api-key, bedrock, vertex, foundry, a string configDir and a
\* string createdAt; whether activeProfile is a key of profiles plays no part
C22_ValidateExactly ==
  checked.op = "validate"
  => LET v == checked.value IN
     checked.accepted <=>
       /\ IsObject(v)
       /\ v.version.t = "number" /\ v.version.s = "1"
       /\ v.activeProfile.t = "string"
       /\ IsObject(v.profiles)
       /\ \A i \in 1..Len(v.profiles.entries) :
            LET e == v.profiles.entries[i] IN
            /\ IsObject(e)
            /\ e.authType.t = "string"
            /\ e.authType.s \in {"oauth", "api-key", "bedrock", "vertex", "foundry"}
            /\ e.configDir.t = "string"
            /\ e.createdAt.t = "string"

C22_Witness ==
  /\ checked.op = "validate" /\ checked.accepted
  /\ checked.value.activeProfile.s = "ghost"
  /\ Len(checked.value.profiles.entries) = 2

RegistryOk == registryFile.exists /\ Len(registryFile.data) >= 5
              /\ registryFile.data[2].v[1] = 1
Registry == Parsed(registryFile.data)
\* a registry command ran in this step
CommandRan == clock' # clock

\* C21: when the registry file exists but is a malformed document or fails
\* the schema, a command that loads it ends with a non-zero exit on an error
\* that names the file path, and the registry file is left as it was
C21_CorruptRegistryKept ==
  [][ (CommandRan /\ registryFile.exists /\ ~RegistryOk)
      => /\ registryFile' = registryFile
         /\ lastCmd'.exit = 1
         /\ lastCmd'.error \in {"load", "name", "source", "nofiles"}
         /\ lastCmd'.error = "load"
              => /\ lastCmd'.message.path = "MULTICC_DIR/config.json"
                 /\ lastCmd'.message.kind \in {"malformed JSON", "invalid structure"}
    ]_vars

C21_Witness ==
  /\ lastCmd.op = "import" /\ lastCmd.arg = "force" /\ lastCmd.error = "load"
  /\ registryFile.exists /\ Len(registryFile.data) = 3
  /\ lastCmd.message.kind = "malformed JSON"

\* C24: deleting the only profile of the registry ends with a non-zero exit
\* and leaves the registry file and the profile directories as they were;
\* no delete takes a registry with profiles to one without
C24_SoleProfileKept ==
  [][ (CommandRan /\ lastCmd'.op = "delete" /\ RegistryOk)
      => /\ (Len(Registry.profiles) = 1 /\ lastCmd'.name \in Keys(Registry.profiles))
              => /\ lastCmd'.exit = 1
                 /\ registryFile' = registryFile
                 /\ profileDirs' = profileDirs
         /\ Len(Registry.profiles) >= 1 => Len(Registry'.profiles) >= 1
    ]_vars

C24_Witness ==
  /\ lastCmd.op = "delete" /\ lastCmd.error = "sole" /\ lastCmd.name = "work"
  /\ RegistryOk /\ Keys(Registry.profiles) = {"work"} /\ "work" \in profileDirs

\* C25: whenever the saved registry has profiles, its activeProfile is one
\* of their names
C25_ActiveProfileExists ==
  (RegistryOk /\ Len(Registry.profiles) > 0)
  => Registry.activeProfile \in Keys(Registry.profiles)

\* C26: a delete of a profile of the registry that succeeds removes that
\* entry and no other; when the profile was the active one activeProfile
\* becomes the first remaining key, otherwise it stays
C26_DeleteReassigns ==
  [][ (/\ CommandRan /\ lastCmd'.op = "delete" /\ lastCmd'.exit = 0 /\ RegistryOk
       /\ lastCmd'.name \in Keys(Registry.profiles))
      => LET before == Registry
             after == Registry'
             name == lastCmd'.name
             kept == { i \in 1..Len(before.profiles) : before.profiles[i].name # name }
         IN
         /\ Len(after.profiles) = Cardinality(kept)
         /\ \A i \in kept :
              \E j \in 1..Len(after.profiles) :
                /\ after.profiles[j] = before.profiles[i]
                /\ j = Cardinality({ x \in kept : x <= i })
         /\ after.activeProfile =
              (IF before.activeProfile = name THEN after.profiles[1].name
               ELSE before.activeProfile)
    ]_vars

C26_Witness ==
  /\ lastCmd.op = "delete" /\ lastCmd.exit = 0 /\ lastCmd.name = "home"
  /\ RegistryOk /\ Len(Registry.profiles) = 2
  /\ "home" \notin Keys(Registry.profiles)
  /\ Registry.activeProfile = Registry.profiles[1].name
  /\ Registry.activeProfile # Registry.profiles[2].name

\* the commands the user gave wrong input to, by the input and the registry
\* they found
InputError ==
  LET op == lastCmd'.op
      name == lastCmd'.name
      profiles == IF RegistryOk THEN Registry.profiles ELSE << >>
      active == IF RegistryOk THEN Registry.activeProfile ELSE "default"
      known == name \in Keys(profiles)
      named == IF name = Undefined THEN active ELSE name
  IN
  \/ op = "create" /\ (name = "my profile" \/ known \/ lastCmd'.arg = "sso")
  \/ op = "import" /\ known /\ lastCmd'.arg = "noforce"
  \/ op \in {"use", "delete"} /\ ~known
  \/ /\ op = "set-key"
     /\ \/ named \notin Keys(profiles)
        \/ \E i \in 1..Len(profiles) :
             profiles[i].name = named /\ profiles[i].authType # "api-key"
        \/ lastCmd'.arg \in {"", "short"}

\* C27: a command given an invalid or duplicate name, an invalid auth type,
\* an existing name to import without --force, an unknown profile to switch
\* to, delete or set a key for, a profile that is not api-key, or an empty or
\* ill-formatted key, ends with a non-zero exit and leaves the registry
\* file, the profile directories and both secret backends as they were
C27_InputErrorsChangeNothing ==
  [][ (CommandRan /\ (RegistryOk \/ ~registryFile.exists) /\ InputError)
      => /\ lastCmd'.exit # 0
         /\ registryFile' = registryFile
         /\ profileDirs' = profileDirs /\ multiccDir' = multiccDir
         /\ vault' = vault /\ fallbackFiles' = fallbackFiles
    ]_vars

\* C28: no command changes the authType or the createdAt of a profile name
\* that is in the registry before and after it
C28_AuthTypeCreatedAtKept ==
  [][ (CommandRan /\ RegistryOk)
      => \A i \in 1..Len(Registry.profiles), j \in 1..Len(Registry'.profiles) :
           Registry.profiles[i].name = Registry'.profiles[j].name
           => /\ Registry.profiles[i].authType = Registry'.profiles[j].authType
              /\ Registry.profiles[i].createdAt = Registry'.profiles[j].createdAt
    ]_vars

\* C29: every profile of the registry has the directory
\* <MULTICC_DIR>/profiles/<its name>, and no two profiles have the same
C29_ConfigDirFromName ==
  RegistryOk
  => /\ \A i \in 1..Len(Registry.profiles) :
          Registry.profiles[i].configDir
            = << "MULTICC_DIR", "profiles", Registry.profiles[i].name >>
     /\ \A i, j \in 1..Len(Registry.profiles) :
          i # j => Registry.profiles[i].configDir # Registry.profiles[j].configDir

C29_Witness ==
  /\ RegistryOk /\ Len(Registry.profiles) = 3
  /\ lastCmd.op = "import" /\ lastCmd.exit = 0 /\ lastCmd.arg = "force"
  /\ clock = 2

\* C30: when the child of launch, exec or shell has ended, the parent's exit
\* code is the child's exit code, and it is not 0 when the child was ended by
\* a signal or could not be spawned
C30_ExitCodeMirrored ==
  (launched.op \in {"launch", "exec", "shell"} /\ launched.spawned /\ launched.exited)
  => /\ launched.childEnd.kind = "exit" => launched.exitCode = launched.childEnd.code
     /\ launched.childEnd.kind \in {"signal", "error"} => launched.exitCode # 0

\* the raw argument list ends with these arguments
IsSuffix(args, rawArgs) ==
  /\ Len(args) <= Len(rawArgs)
  /\ args = SubSeq(rawArgs, Len(rawArgs) - Len(args) + 1, Len(rawArgs))

\* C31: launch and exec strip a "--" only when it is the first passthrough
\* element and only one; the words the child receives are the remaining
\* tokens, unmodified and in order, a suffix of the raw argument list; exec
\* with nothing left exits non-zero without spawning
C31_TokensForwarded ==
  launched.op \in {"launch", "exec"} =>
    /\ launched.args = IF Len(launched.selected) > 0 /\ launched.selected[1] = "--"
                         THEN Tail(launched.selected) ELSE launched.selected
    /\ IsSuffix(launched.args, launched.rawArgs)
    /\ launched.spawned => launched.childArgs = launched.args
    /\ (launched.op = "exec" /\ Len(launched.args) = 0)
         => ~launched.spawned /\ launched.exitCode # 0

\* C32: when set-key ends with success, or leaves the apiKeyStorage marker
\* "keyring" in the registry, one of the two secret backends holds the key
\* just given under the profile's name
C32_MarkerOnlyWhenStored ==
  [][ (CommandRan /\ lastCmd'.op = "set-key" /\ lastCmd'.exit = 0)
      => LET name == IF lastCmd'.name = Undefined THEN Registry'.activeProfile
                     ELSE lastCmd'.name
         IN vault'[name] = lastCmd'.arg \/ fallbackFiles'[name] = lastCmd'.arg
    ]_vars

\* C33: the resolver prints the configDir of the profile MULTICC_PROFILE
\* names when it names one, and of activeProfile when it is not set or is the
\* empty string; it exits non-zero, printing nothing, only when that profile
\* is not in the registry or the registry cannot be loaded
C33_ResolverOutput ==
  [][ (CommandRan /\ lastCmd'.op = "_resolve-config-dir")
      => LET selects == lastCmd'.name \notin {Unset, ""}
             loadable == RegistryOk \/ ~registryFile.exists
             profiles == IF RegistryOk THEN Registry.profiles ELSE << >>
             expected == IF selects THEN lastCmd'.name
                         ELSE IF RegistryOk THEN Registry.activeProfile ELSE "default"
         IN IF loadable /\ expected \in Keys(profiles)
              THEN /\ lastCmd'.exit = 0
                   /\ lastCmd'.output
                        = PathString(profiles[KeyIndex(profiles, expected)].configDir)
              ELSE lastCmd'.exit # 0 /\ lastCmd'.output = ""
    ]_vars

\* neither backend holds a secret under the name
NoSecretLeft(name, v, f) == v[name] = Null /\ f[name] = Null

\* C34: after delete has removed a profile, and after prune has removed all
\* profiles of a loadable registry, neither the vault nor the fallback file
\* holds a secret under a removed name
C34_NoSecretAfterRemoval ==
  [][ (CommandRan /\ RegistryOk /\ lastCmd'.exit = 0)
      => /\ (lastCmd'.op = "delete" /\ lastCmd'.name \in SecretNames)
              => NoSecretLeft(lastCmd'.name, vault', fallbackFiles')
         /\ (lastCmd'.op = "prune" /\ lastCmd'.error = "none")
              => \A n \in Keys(Registry.profiles) \cap SecretNames :
                   NoSecretLeft(n, vault', fallbackFiles')
    ]_vars

\* C35: for an api-key profile as create wrote it, status looks the secret up
\* under the registry key, and without an ANTHROPIC_API_KEY override the
\* status is authenticated by method api-key exactly when the child's
\* environment contains ANTHROPIC_API_KEY
C35_StatusAgreesWithLaunch ==
  (checked.op = "statusAndLaunch" /\ checked.authType = "api-key")
  => /\ checked.secretName = checked.name
     /\ checked.envOverrides["ANTHROPIC_API_KEY"] = Unset
          => ((checked.status.authenticated /\ checked.status.method = "api-key")
                <=> checked.childEnv["ANTHROPIC_API_KEY"] # Unset)

C35_Witness ==
  /\ checked.op = "statusAndLaunch" /\ checked.authType = "api-key"
  /\ checked.envOverrides["ANTHROPIC_API_KEY"] = Unset
  /\ checked.vault = Null /\ checked.file = "sk-ant-B"
  /\ checked.status.authenticated
  /\ checked.childEnv["ANTHROPIC_API_KEY"] = "sk-ant-B"

\* C36: whatever suffixes concurrent saves draw, a save that is not killed
\* ends with its rename, and the content that rename puts under config.json
\* is the registry the save was given
C36_SavePublishesOwnContent ==
  [][ \A p \in Procs :
        (pc[p] \in {"saveChmod", "saveRename"} /\ pc'[p] = "idle"
           /\ outcome'[p] # "crashed")
        => /\ outcome'[p] = "success"
           /\ registryFile'.exists /\ registryFile'.data = saved[p]
    ]_vars

ListedProfilesHaveDir ==
  (registryFile.exists /\ loadConfig(registryFile).ok)
  => Keys(loadConfig(registryFile).value.profiles) \subseteq profileDirs

\* C38 (as claimed): at every point of create, switch and delete, a crash
\* between two steps included, and after two of them ran concurrently, every
\* profile the registry file lists still has its directory
C38_ListedDirsKept == ListedProfilesHaveDir

\* C38 (amended): as long as no command began while another one was in
\* flight, at every point of create, switch and delete, a crash between two
\* steps included, every profile the registry file lists has its directory
C38_ListedDirsKeptAlone == ~overlapped => ListedProfilesHaveDir

\* C38 witness: a delete, alone, was killed after its rename and before
\* rmSync: the profile is out of the registry, its directory still there
C38_Witness ==
  /\ ~overlapped
  /\ \E p \in Procs :
       /\ cmd[p].op = "delete" /\ outcome[p] = "crashed" /\ lastRename = p
       /\ cmd[p].name \in profileDirs
       /\ cmd[p].name \notin Keys(loadConfig(registryFile).value.profiles)

\* prune went past the confirmation: --force, or a yes to the prompt
PruneConfirmed(ran) == ran.force \/ (ran.interactive /\ ran.answer = "yes")
\* prune took nothing away
PruneLeftAll == UNCHANGED << fsVars, vault, fallbackFiles, credFiles >>
\* loadConfig returns the default registry
LoadsDefault(file) == loadConfig(file).ok /\ loadConfig(file).value = defaultConfig

====
